---- MODULE Spec2Model ----
(***************************************************************************)
(* A model of the SubtleCrypto polyfill of mindoodb-test-app: the          *)
(* dispatcher (SubtleCryptoPolyfill), the Ed25519, RSA-OAEP, AES-GCM,      *)
(* PBKDF2, HMAC and SHA-256 adapters, the ASN.1 DER codec of the Ed25519   *)
(* adapter and the PEM converter.                                          *)
(*                                                                         *)
(* Bytes are the integers 0..255 and byte strings are sequences of them.   *)
(* An ArrayBuffer is an entry of the heap (a sequence of byte strings);    *)
(* its identity is its index.  A thrown exception is an outcome record     *)
(* with ok = FALSE, its class in err and its message in msg/name.          *)
(***************************************************************************)
EXTENDS Integers, Sequences, FiniteSets, TLC

VARIABLES keys, heap, writes, call, result, probe

vars == <<keys, heap, writes, call, result, probe>>

(***************************************************************************)
(* Bounds of the model.                                                    *)
(***************************************************************************)
\* The handles a caller keeps.
MaxKeys == 2

\* The values the random generator can give to generateKey.
MaxSeedIx == 1

\* The messages a caller signs, encrypts or hashes.
MaxMsgIx == 1

\* The stores a caller makes into a buffer it shares with the engine.
MaxWrites == 1

\* The seeds of the Ed25519 round trips.
MaxRoundTrips == 12

\* The largest offset of a view a caller passes as a raw key.
MaxOffset == 4

(***************************************************************************)
(* Program constants.                                                      *)
(***************************************************************************)
ED25519_SEED_SIZE == 32

ED25519_PUBLIC_KEY_SIZE == 32

ED25519_SECRET_KEY_SIZE == 64

ED25519_SIGNATURE_SIZE == 64

\* The modulus length of the RSA keys of the test suite.
ModulusLength == 3072

(***************************************************************************)
(* JavaScript values.                                                      *)
(***************************************************************************)
\* The value `undefined` where a byte string (a typed array) is expected.
Undef == <<-1>>

\* The value `undefined` where a number (a byte, an index) is expected.
UndefNum == -1

Min(a, b) == IF a < b THEN a ELSE b

Max(a, b) == IF a > b THEN a ELSE b

\* data[pos] of a Uint8Array: undefined outside 0..length-1.
ByteAt(data, pos) ==
  IF pos >= 0 /\ pos < Len(data) THEN data[pos + 1] ELSE UndefNum

\* TypedArray.prototype.slice(start, end): both ends are clamped to the array.
Slice(data, start, end) ==
  LET n == Len(data)
      s == IF start < 0 THEN Max(n + start, 0) ELSE Min(start, n)
      e == IF end < 0 THEN Max(n + end, 0) ELSE Min(end, n)
  IN  IF e <= s THEN <<>> ELSE SubSeq(data, s + 1, e)

\* (length << 8) | byte on 32-bit signed integers: the low 24 bits of length
\* move up by 8, and bit 23 becomes the sign bit.
ShiftLeft8Or(length, byte) ==
  LET low == length % 16777216
  IN  IF low >= 8388608 THEN (low - 16777216) * 256 + byte ELSE low * 256 + byte

RECURSIVE Concat(_)
\* The concatenation of a sequence of byte strings.
Concat(items) ==
  IF items = <<>> THEN <<>> ELSE Head(items) \o Concat(Tail(items))

(***************************************************************************)
(* Outcomes of a call.                                                     *)
(***************************************************************************)
NoOutcome ==
  [ok |-> TRUE, err |-> "none", msg |-> "none", name |-> "none",
   routed |-> "none", bytes |-> Undef, bool |-> FALSE, buf |-> 0,
   newKeys |-> <<>>]

Throw(class, msg, name, routed) ==
  [NoOutcome EXCEPT !.ok = FALSE, !.err = class, !.msg = msg, !.name = name,
                    !.routed = routed]

(***************************************************************************)
(* ASN.1 DER codec of the Ed25519 adapter.                                 *)
(***************************************************************************)
RECURSIVE LengthLoop(_, _, _, _, _)
\* for (i = 0; i < lengthBytes; i++) length = (length << 8) | data[pos+1+i]
LengthLoop(data, pos, lengthBytes, i, length) ==
  IF i >= lengthBytes THEN length
  ELSE LengthLoop(data, pos, lengthBytes, i + 1,
                  ShiftLeft8Or(length, ByteAt(data, pos + 1 + i)))

readASN1Length(data, pos) ==
  IF pos >= Len(data)
  THEN [ok |-> FALSE, msg |-> "unexpected end of data", value |-> 0, bytesRead |-> 0]
  ELSE LET firstByte == ByteAt(data, pos)
       IN  IF firstByte = UndefNum \/ firstByte < 128
           THEN [ok |-> TRUE, msg |-> "none", value |-> firstByte, bytesRead |-> 1]
           ELSE LET lengthBytes == firstByte % 128
                IN  IF lengthBytes = 0 \/ lengthBytes > 4
                    THEN [ok |-> FALSE, msg |-> "invalid length encoding",
                          value |-> 0, bytesRead |-> 0]
                    ELSE IF pos + 1 + lengthBytes > Len(data)
                    THEN [ok |-> FALSE, msg |-> "unexpected end of data",
                          value |-> 0, bytesRead |-> 0]
                    ELSE [ok |-> TRUE, msg |-> "none",
                          value |-> LengthLoop(data, pos, lengthBytes, 0, 0),
                          bytesRead |-> 1 + lengthBytes]

RECURSIVE LengthOctets(_)
\* while (value > 0) { bytes.unshift(value & 0xff); value >>>= 8 }
LengthOctets(value) ==
  IF value <= 0 THEN <<>> ELSE LengthOctets(value \div 256) \o <<value % 256>>

encodeASN1Length(length) ==
  IF length < 128 THEN <<length>>
  ELSE LET bytes == LengthOctets(length) IN <<128 + Len(bytes)>> \o bytes

encodeASN1Sequence(items) ==
  LET body == Concat(items) IN <<48>> \o encodeASN1Length(Len(body)) \o body

\* A BIT STRING written without its unused-bits octet.
encodeASN1BitStringUnpadded(data) ==
  <<3>> \o encodeASN1Length(Len(data)) \o data

encodeASN1BitString(data) ==
  <<3>> \o encodeASN1Length(1 + Len(data)) \o <<0>> \o data

encodeASN1OctetString(data) ==
  <<4>> \o encodeASN1Length(Len(data)) \o data

encodeASN1Integer(data) ==
  <<2>> \o encodeASN1Length(Len(data)) \o data

\* OID 1.3.101.112 (Ed25519), with its tag and length.
Ed25519Oid == <<6, 3, 43, 101, 112>>

\* A parse result: the bytes extracted, or the Error thrown.
Parsed(bytes) == [ok |-> TRUE, msg |-> "none", bytes |-> bytes]

ParseError(msg) == [ok |-> FALSE, msg |-> msg, bytes |-> Undef]

extractEd25519PublicKeyFromSPKI(spki) ==
  IF ByteAt(spki, 0) # 48 THEN ParseError("expected SEQUENCE")
  ELSE LET seqLength == readASN1Length(spki, 1) IN
  IF ~seqLength.ok THEN ParseError(seqLength.msg)
  ELSE LET p1 == 1 + seqLength.bytesRead IN
  IF ByteAt(spki, p1) # 48 THEN ParseError("expected AlgorithmIdentifier SEQUENCE")
  ELSE LET algIdLength == readASN1Length(spki, p1 + 1) IN
  IF ~algIdLength.ok THEN ParseError(algIdLength.msg)
  ELSE LET p2 == p1 + 1 + algIdLength.bytesRead + algIdLength.value IN
  IF ByteAt(spki, p2) # 3 THEN ParseError("expected BIT STRING")
  ELSE LET bitStringLength == readASN1Length(spki, p2 + 1) IN
  IF ~bitStringLength.ok THEN ParseError(bitStringLength.msg)
  ELSE LET p3 == p2 + 1 + bitStringLength.bytesRead + 1 IN
  IF bitStringLength.value - 1 # ED25519_PUBLIC_KEY_SIZE
  THEN ParseError("Invalid Ed25519 public key size")
  ELSE Parsed(Slice(spki, p3, p3 + ED25519_PUBLIC_KEY_SIZE))

extractEd25519PrivateKeyFromPKCS8(pkcs8) ==
  IF ByteAt(pkcs8, 0) # 48 THEN ParseError("expected SEQUENCE")
  ELSE LET seqLength == readASN1Length(pkcs8, 1) IN
  IF ~seqLength.ok THEN ParseError(seqLength.msg)
  ELSE LET p1 == 1 + seqLength.bytesRead IN
  IF ByteAt(pkcs8, p1) # 2 THEN ParseError("expected version INTEGER")
  ELSE LET versionLength == readASN1Length(pkcs8, p1 + 1) IN
  IF ~versionLength.ok THEN ParseError(versionLength.msg)
  ELSE LET p2 == p1 + 1 + versionLength.bytesRead + versionLength.value IN
  IF ByteAt(pkcs8, p2) # 48 THEN ParseError("expected AlgorithmIdentifier SEQUENCE")
  ELSE LET algIdLength == readASN1Length(pkcs8, p2 + 1) IN
  IF ~algIdLength.ok THEN ParseError(algIdLength.msg)
  ELSE LET p3 == p2 + 1 + algIdLength.bytesRead + algIdLength.value IN
  IF ByteAt(pkcs8, p3) # 4 THEN ParseError("expected OCTET STRING")
  ELSE LET outerOctetLength == readASN1Length(pkcs8, p3 + 1) IN
  IF ~outerOctetLength.ok THEN ParseError(outerOctetLength.msg)
  ELSE LET p4 == p3 + 1 + outerOctetLength.bytesRead IN
  IF ByteAt(pkcs8, p4) = 4
  THEN LET innerOctetLength == readASN1Length(pkcs8, p4 + 1) IN
       IF ~innerOctetLength.ok THEN ParseError(innerOctetLength.msg)
       ELSE LET p5 == p4 + 1 + innerOctetLength.bytesRead IN
       IF innerOctetLength.value # ED25519_SEED_SIZE
       THEN ParseError("Invalid Ed25519 private key size")
       ELSE Parsed(Slice(pkcs8, p5, p5 + ED25519_SEED_SIZE))
  ELSE IF outerOctetLength.value # ED25519_SEED_SIZE
       THEN ParseError("Invalid Ed25519 private key size")
       ELSE Parsed(Slice(pkcs8, p4, p4 + ED25519_SEED_SIZE))

encodeEd25519PublicKeyToSPKI(publicKey) ==
  IF Len(publicKey) # ED25519_PUBLIC_KEY_SIZE
  THEN ParseError("Invalid Ed25519 public key size")
  ELSE Parsed(encodeASN1Sequence(<<encodeASN1Sequence(<<Ed25519Oid>>),
                                   encodeASN1BitString(publicKey)>>))

\* A PKCS#8 encoder writing the older layout, the seed in one OCTET STRING.
encodeEd25519PrivateKeyToPKCS8Single(seed) ==
  IF Len(seed) # ED25519_SEED_SIZE
  THEN ParseError("Invalid Ed25519 seed size")
  ELSE Parsed(encodeASN1Sequence(<<encodeASN1Integer(<<0>>),
                                   encodeASN1Sequence(<<Ed25519Oid>>),
                                   encodeASN1OctetString(seed)>>))

encodeEd25519PrivateKeyToPKCS8(seed) ==
  IF Len(seed) # ED25519_SEED_SIZE
  THEN ParseError("Invalid Ed25519 seed size")
  ELSE Parsed(encodeASN1Sequence(<<encodeASN1Integer(<<0>>),
                                   encodeASN1Sequence(<<Ed25519Oid>>),
                                   encodeASN1OctetString(encodeASN1OctetString(seed))>>))

(***************************************************************************)
(* The primitive libraries (tweetnacl, node-forge), by their contracts.    *)
(* A digest stands for SHA-256/SHA-512: a function of the bytes that is    *)
(* injective on the byte strings of the model.                             *)
(***************************************************************************)
RECURSIVE HashFrom(_, _)
HashFrom(bytes, i) ==
  IF i > Len(bytes) THEN 0
  ELSE (bytes[i] * (2 * i + 1) + 3 * HashFrom(bytes, i + 1)) % 251

HashOf(bytes) == (Len(bytes) * 7 + HashFrom(bytes, 1)) % 251

\* The public key of a seed (nacl: scalar multiplication of the hashed seed).
NaclPublicOf(seed) ==
  [i \in 1..ED25519_PUBLIC_KEY_SIZE |->
     (3 * seed[ED25519_SEED_SIZE + 1 - i] + i * i) % 256]

\* The seed a public key belongs to (used to state what verify accepts).
NaclSeedOf(publicKey) ==
  [j \in 1..ED25519_SEED_SIZE |->
     LET i == ED25519_PUBLIC_KEY_SIZE + 1 - j
     IN  (171 * ((publicKey[i] + 1024 - i * i) % 256)) % 256]

\* nacl.sign.keyPair.fromSeed(seed)
NaclKeyPairFromSeed(seed) ==
  IF Len(seed) # ED25519_SEED_SIZE
  THEN [ok |-> FALSE, msg |-> "bad seed size", publicKey |-> Undef, secretKey |-> Undef]
  ELSE [ok |-> TRUE, msg |-> "none", publicKey |-> NaclPublicOf(seed),
        secretKey |-> seed \o NaclPublicOf(seed)]

\* The 64 signature bytes of a message under a 64-byte secret key.
NaclSignature(secretKey, message) ==
  [i \in 1..ED25519_SIGNATURE_SIZE |->
     (secretKey[i] + HashOf(message) * (1 + (i % 3)) + i) % 256]

\* nacl.sign.detached(message, secretKey)
NaclSignDetached(message, secretKey) ==
  IF Len(secretKey) # ED25519_SECRET_KEY_SIZE
  THEN ParseError("bad secret key size")
  ELSE Parsed(NaclSignature(secretKey, message))

\* nacl.sign.detached.verify(message, signature, publicKey)
NaclVerifyDetached(message, signature, publicKey) ==
  IF Len(signature) # ED25519_SIGNATURE_SIZE
  THEN [ok |-> FALSE, msg |-> "bad signature size", bool |-> FALSE]
  ELSE IF Len(publicKey) # ED25519_PUBLIC_KEY_SIZE
  THEN [ok |-> FALSE, msg |-> "bad public key size", bool |-> FALSE]
  ELSE [ok |-> TRUE, msg |-> "none",
        bool |-> signature =
                   NaclSignature(NaclSeedOf(publicKey) \o publicKey, message)]

\* forge.hmac with "sha256": 32 bytes.
ForgeHmacSha256(keyBytes, dataBytes) ==
  [i \in 1..32 |-> (HashOf(keyBytes) * 5 + HashOf(dataBytes) * (1 + (i % 2)) + i) % 256]

\* forge.md.sha256: 32 bytes.
ForgeSha256(dataBytes) ==
  [i \in 1..32 |-> (HashOf(dataBytes) * (1 + (i % 2)) + 2 * i) % 256]

\* forge.pkcs5.pbkdf2(password, salt, iterations, keyLength, sha256)
ForgePbkdf2(password, salt, iterations, keyLength) ==
  [i \in 1..keyLength |->
     (HashOf(password) * 3 + HashOf(salt) * 5 + iterations + i) % 256]

\* The AES-GCM key stream byte and the full 16-byte tag.
ForgeGcmStream(keyBytes, ivBytes, i) ==
  (HashOf(keyBytes) + 3 * HashOf(ivBytes) + 11 * i) % 256

ForgeGcmTag(keyBytes, ivBytes, ciphertext) ==
  [i \in 1..16 |->
     (HashOf(keyBytes) * 3 + HashOf(ivBytes) * 7 + HashOf(ciphertext) * (1 + (i % 2)) + i) % 256]

\* forge rejects a key that is not 16, 24 or 32 bytes long.
ForgeAesKeyOk(keyBytes) == Len(keyBytes) \in {16, 24, 32}

\* modes.gcm finish: tag.truncate(tag.length() % (tagLength / 8)), where the
\* tagLength option is taken as a number of bits.
ForgeGcmTagBytes(tagLengthOption) ==
  (128 - (128 % tagLengthOption)) \div 8

ForgeGcmCrypt(keyBytes, ivBytes, input, sign) ==
  [i \in 1..Len(input) |->
     (input[i] + 256 + sign * ForgeGcmStream(keyBytes, ivBytes, i)) % 256]

\* An RSA key pair of node-forge is known by its modulus.  DER encodings made
\* by forge start with the SEQUENCE tag, then name the container and the key.
ForgeSpkiDer(n) == <<48, 1, n>>

ForgePkcs8Der(n) == <<48, 8, n>>

ForgePkcs1PrivateDer(n) == <<48, 2, n>>

\* key.n.bitLength(): every modulus of the model has the one length.
ForgeBitLength(n) == ModulusLength

\* publicKey.encrypt(bytes, "RSA-OAEP", ...) with padding randomness r.
ForgeRsaEncrypt(n, dataBytes, r) == <<n, r>> \o dataBytes

\* privateKey.decrypt(bytes, "RSA-OAEP", ...): throws on a padding error.
ForgeRsaDecrypt(n, dataBytes) ==
  IF Len(dataBytes) >= 2 /\ dataBytes[1] = n
  THEN Parsed(SubSeq(dataBytes, 3, Len(dataBytes)))
  ELSE ParseError("Invalid RSAES-OAEP padding.")

(***************************************************************************)
(* The base64 primitive of the host (the atob/btoa polyfill) and the Key   *)
(* Format Converter.  A base64 text is the sequence of the indices of its  *)
(* characters in base64Chars; index 64 is the padding character.           *)
(***************************************************************************)
RECURSIVE BitOr(_, _)
BitOr(a, b) ==
  IF a = 0 THEN b
  ELSE IF b = 0 THEN a
  ELSE (IF a % 2 = 1 \/ b % 2 = 1 THEN 1 ELSE 0) + 2 * BitOr(a \div 2, b \div 2)

RECURSIVE btoaFrom(_, _)
btoaFrom(input, i) ==
  IF i >= Len(input) THEN <<>>
  ELSE LET a == input[i + 1]
           b == IF i + 1 < Len(input) THEN input[i + 2] ELSE 0
           c == IF i + 2 < Len(input) THEN input[i + 3] ELSE 0
       IN  << a \div 4,
              BitOr((a % 4) * 16, b \div 16),
              IF i + 1 < Len(input) THEN BitOr((b % 16) * 4, c \div 64) ELSE 64,
              IF i + 2 < Len(input) THEN c % 64 ELSE 64 >>
           \o btoaFrom(input, i + 3)

btoa(input) == btoaFrom(input, 0)

RECURSIVE atobFrom(_, _)
atobFrom(str, i) ==
  IF i >= Len(str) THEN <<>>
  ELSE LET a == str[i + 1]
           b == str[i + 2]
           c == str[i + 3]
           d == str[i + 4]
       IN  <<BitOr(a * 4, b \div 16)>>
           \o (IF c # 64 THEN <<BitOr((b % 16) * 16, c \div 4)>> ELSE <<>>)
           \o (IF d # 64 THEN <<BitOr((c % 4) * 64, d)>> ELSE <<>>)
           \o atobFrom(str, i + 4)

\* The character codes of the decoded string, or the Error thrown.
atob(str) ==
  IF Len(str) % 4 # 0 THEN ParseError("Invalid base64 string")
  ELSE Parsed(atobFrom(str, 0))

RECURSIVE Lines76(_)
\* Lines of 76 characters, the width of MIME.
Lines76(base64) ==
  IF base64 = <<>> THEN <<>>
  ELSE <<SubSeq(base64, 1, Min(76, Len(base64)))>>
       \o Lines76(SubSeq(base64, Min(76, Len(base64)) + 1, Len(base64)))

RECURSIVE Lines64(_)
\* for (i = 0; i < base64.length; i += 64) lines.push(base64.slice(i, i + 64))
Lines64(base64) ==
  IF base64 = <<>> THEN <<>>
  ELSE <<SubSeq(base64, 1, Min(64, Len(base64)))>>
       \o Lines64(SubSeq(base64, Min(64, Len(base64)) + 1, Len(base64)))

NoPem == [label |-> "none", lines |-> <<>>]

arrayBufferToPEM(buffer, type) ==
  [label |-> IF type = "PUBLIC KEY" THEN "PUBLIC KEY" ELSE "PRIVATE KEY",
   lines |-> Lines64(btoa(buffer))]

\* The header, the footer and all white space are removed; what is left is
\* decoded, and each character code is stored into a Uint8Array.
pemToArrayBuffer(pem) ==
  LET binary == atob(Concat(pem.lines))
  IN  IF ~binary.ok THEN binary
      ELSE Parsed([i \in 1..Len(binary.bytes) |-> binary.bytes[i] % 256])

\* forge.pki.publicKeyToPem / privateKeyToPem: the latter writes the PKCS#1
\* RSAPrivateKey under the label RSA PRIVATE KEY.
ForgePublicKeyToPem(n) ==
  [label |-> "PUBLIC KEY", lines |-> Lines64(btoa(ForgeSpkiDer(n)))]

ForgePrivateKeyToPem(n) ==
  [label |-> "RSA PRIVATE KEY", lines |-> Lines64(btoa(ForgePkcs1PrivateDer(n)))]

\* forge.pki.publicKeyFromPem / privateKeyFromPem: the modulus of the key, or
\* the Error thrown (wrong label, or a DER that is no such key).
ForgePublicKeyFromPem(pem) ==
  LET der == pemToArrayBuffer(pem)
  IN  IF pem.label # "PUBLIC KEY" \/ ~der.ok
      THEN [ok |-> FALSE, n |-> 0, msg |-> "Invalid PEM formatted message."]
      ELSE IF Len(der.bytes) = 3 /\ der.bytes[1] = 48 /\ der.bytes[2] = 1
      THEN [ok |-> TRUE, n |-> der.bytes[3], msg |-> "none"]
      ELSE [ok |-> FALSE, n |-> 0,
            msg |-> "Cannot read public key. ASN.1 object does not contain an RSAPublicKey."]

ForgePrivateKeyFromPem(pem) ==
  LET der == pemToArrayBuffer(pem)
  IN  IF pem.label \notin {"PRIVATE KEY", "RSA PRIVATE KEY"} \/ ~der.ok
      THEN [ok |-> FALSE, n |-> 0, msg |-> "Invalid PEM formatted message."]
      ELSE IF Len(der.bytes) = 3 /\ der.bytes[1] = 48 /\ der.bytes[2] \in {8, 2}
      THEN [ok |-> TRUE, n |-> der.bytes[3], msg |-> "none"]
      ELSE [ok |-> FALSE, n |-> 0,
            msg |-> "Cannot read private key. ASN.1 object does not contain an RSAPrivateKey."]

(***************************************************************************)
(* Key handles (the CryptoKey-like objects) and the arguments of a call.   *)
(***************************************************************************)
NoAlg == [name |-> "none", length |-> 0, hash |-> "none", modulusLength |-> 0]

BlankKey ==
  [type |-> "secret", extractable |-> FALSE, algorithm |-> NoAlg, usages |-> {},
   rawKey |-> 0, rawPublicKey |-> Undef, rawPrivateKey |-> Undef,
   forgePublicKey |-> 0, forgePrivateKey |-> 0,
   pemPublicKey |-> NoPem, pemPrivateKey |-> NoPem]

\* An immediate BufferSource: an ArrayBuffer, or a view on one.
Buffer(bytes) ==
  [isBuffer |-> TRUE, u8 |-> FALSE, buffer |-> bytes,
   byteOffset |-> 0, byteLength |-> Len(bytes)]

Uint8View(bytes, offset, length) ==
  [isBuffer |-> FALSE, u8 |-> TRUE, buffer |-> bytes,
   byteOffset |-> offset, byteLength |-> length]

\* new Uint8Array(view.buffer, view.byteOffset, view.byteLength)
ViewBytes(src) == SubSeq(src.buffer, src.byteOffset + 1, src.byteOffset + src.byteLength)

\* data instanceof ArrayBuffer ? data : data.buffer
WholeBuffer(src) == src.buffer

\* An algorithm identifier: the string name, or an object with a name.
NoParams ==
  [form |-> "obj", name |-> "none", length |-> 0, hash |-> "none",
   modulusLength |-> 0, publicExponent |-> <<>>, iv |-> Buffer(<<>>),
   tagLength |-> 0, salt |-> Buffer(<<>>), iterations |-> 0]

AlgId(form, name) == [NoParams EXCEPT !.form = form, !.name = name]

\* The name of the object made by
\*   typeof algorithm === "string" ? { name: algorithm } : algorithm
Normalized(algorithm) == algorithm.name

\* algorithm.name read without normalization: undefined on a string.
RawName(algorithm) ==
  IF algorithm.form = "str" THEN "undefined" ELSE algorithm.name

\* The algorithm object as it is stored into a handle.
Descriptor(algorithm) ==
  [name |-> algorithm.name, length |-> algorithm.length,
   hash |-> algorithm.hash, modulusLength |-> algorithm.modulusLength]

(***************************************************************************)
(* The Ed25519 adapter.                                                    *)
(***************************************************************************)
\* seed: the 32 random bytes nacl.sign.keyPair() draws.
ed25519GenerateKey(seed) ==
  LET keyPair == NaclKeyPairFromSeed(seed)
  IN  [NoOutcome EXCEPT
         !.routed = "ed25519",
         !.newKeys =
           << [BlankKey EXCEPT !.type = "public", !.extractable = TRUE,
                 !.algorithm = [NoAlg EXCEPT !.name = "Ed25519"],
                 !.usages = {"verify"}, !.rawPublicKey = keyPair.publicKey],
              [BlankKey EXCEPT !.type = "private", !.extractable = TRUE,
                 !.algorithm = [NoAlg EXCEPT !.name = "Ed25519"],
                 !.usages = {"sign"}, !.rawPrivateKey = keyPair.secretKey] >>]

ed25519ImportKey(format, keyBytes, algorithm, extractable, keyUsages) ==
  IF format = "spki"
  THEN LET publicKey == extractEd25519PublicKeyFromSPKI(keyBytes)
       IN  IF ~publicKey.ok THEN Throw("Error", publicKey.msg, "none", "ed25519")
           ELSE [NoOutcome EXCEPT
                   !.routed = "ed25519",
                   !.newKeys =
                     << [BlankKey EXCEPT !.type = "public",
                           !.extractable = extractable,
                           !.algorithm = Descriptor(algorithm),
                           !.usages = keyUsages,
                           !.rawPublicKey = publicKey.bytes] >>]
  ELSE LET seed == extractEd25519PrivateKeyFromPKCS8(keyBytes)
       IN  IF ~seed.ok THEN Throw("Error", seed.msg, "none", "ed25519")
           ELSE LET keyPair == NaclKeyPairFromSeed(seed.bytes)
                IN  IF ~keyPair.ok THEN Throw("Error", keyPair.msg, "none", "ed25519")
                    ELSE [NoOutcome EXCEPT
                            !.routed = "ed25519",
                            !.newKeys =
                              << [BlankKey EXCEPT !.type = "private",
                                    !.extractable = extractable,
                                    !.algorithm = Descriptor(algorithm),
                                    !.usages = keyUsages,
                                    !.rawPrivateKey = keyPair.secretKey] >>]

ed25519ExportKey(format, key) ==
  IF format = "spki"
  THEN IF key.rawPublicKey = Undef
       THEN Throw("Error", "Key does not contain public key material", "none", "ed25519")
       ELSE LET der == encodeEd25519PublicKeyToSPKI(key.rawPublicKey)
            IN  IF ~der.ok THEN Throw("Error", der.msg, "none", "ed25519")
                ELSE [NoOutcome EXCEPT !.routed = "ed25519", !.bytes = der.bytes]
  ELSE IF key.rawPrivateKey = Undef
       THEN Throw("Error", "Key does not contain private key material", "none", "ed25519")
       ELSE LET der == encodeEd25519PrivateKeyToPKCS8(
                         Slice(key.rawPrivateKey, 0, ED25519_SEED_SIZE))
            IN  IF ~der.ok THEN Throw("Error", der.msg, "none", "ed25519")
                ELSE [NoOutcome EXCEPT !.routed = "ed25519", !.bytes = der.bytes]

ed25519Sign(key, dataBytes) ==
  IF key.rawPrivateKey = Undef
  THEN Throw("Error", "Key does not contain private key material", "none", "ed25519")
  ELSE LET signature == NaclSignDetached(dataBytes, key.rawPrivateKey)
       IN  IF ~signature.ok THEN Throw("Error", signature.msg, "none", "ed25519")
           ELSE [NoOutcome EXCEPT !.routed = "ed25519", !.bytes = signature.bytes]

ed25519Verify(key, sigBytes, dataBytes) ==
  IF key.rawPublicKey = Undef
  THEN Throw("Error", "Key does not contain public key material", "none", "ed25519")
  ELSE LET verdict == NaclVerifyDetached(dataBytes, sigBytes, key.rawPublicKey)
       IN  IF ~verdict.ok THEN Throw("Error", verdict.msg, "none", "ed25519")
           ELSE [NoOutcome EXCEPT !.routed = "ed25519", !.bool = verdict.bool]

(***************************************************************************)
(* The RSA-OAEP adapter.                                                   *)
(***************************************************************************)
\* n: the modulus of the key pair forge.pki.rsa.generateKeyPair draws.
rsaGenerateKey(algorithm, extractable, keyUsages, n) ==
  [NoOutcome EXCEPT
     !.routed = "rsa",
     !.newKeys =
       << [BlankKey EXCEPT !.type = "public", !.extractable = extractable,
             !.algorithm = [NoAlg EXCEPT !.name = "RSA-OAEP",
                              !.modulusLength = algorithm.modulusLength,
                              !.hash = algorithm.hash],
             !.usages = keyUsages \cap {"encrypt"},
             !.forgePublicKey = n, !.pemPublicKey = ForgePublicKeyToPem(n)],
          [BlankKey EXCEPT !.type = "private", !.extractable = extractable,
             !.algorithm = [NoAlg EXCEPT !.name = "RSA-OAEP",
                              !.modulusLength = algorithm.modulusLength,
                              !.hash = algorithm.hash],
             !.usages = keyUsages \cap {"decrypt"},
             !.forgePrivateKey = n, !.pemPrivateKey = ForgePrivateKeyToPem(n)] >>]

rsaImportKey(format, keyBytes, algorithm, extractable, keyUsages) ==
  LET pem == arrayBufferToPEM(keyBytes,
                              IF format = "spki" THEN "PUBLIC KEY" ELSE "PRIVATE KEY")
  IN  IF format = "spki"
      THEN LET publicKey == ForgePublicKeyFromPem(pem)
           IN  IF ~publicKey.ok
               THEN Throw("Error", "Failed to import RSA key", "none", "rsa")
               ELSE [NoOutcome EXCEPT
                       !.routed = "rsa",
                       !.newKeys =
                         << [BlankKey EXCEPT !.type = "public",
                               !.extractable = extractable,
                               !.algorithm = [NoAlg EXCEPT !.name = "RSA-OAEP",
                                                !.hash = algorithm.hash,
                                                !.modulusLength = ForgeBitLength(publicKey.n)],
                               !.usages = keyUsages \cap {"encrypt"},
                               !.forgePublicKey = publicKey.n,
                               !.pemPublicKey = ForgePublicKeyToPem(publicKey.n)] >>]
      ELSE LET privateKey == ForgePrivateKeyFromPem(pem)
           IN  IF ~privateKey.ok
               THEN Throw("Error", "Failed to import RSA key", "none", "rsa")
               ELSE [NoOutcome EXCEPT
                       !.routed = "rsa",
                       !.newKeys =
                         << [BlankKey EXCEPT !.type = "private",
                               !.extractable = extractable,
                               !.algorithm = [NoAlg EXCEPT !.name = "RSA-OAEP",
                                                !.hash = algorithm.hash,
                                                !.modulusLength = ForgeBitLength(privateKey.n)],
                               !.usages = keyUsages \cap {"decrypt"},
                               !.forgePrivateKey = privateKey.n,
                               !.pemPrivateKey = ForgePrivateKeyToPem(privateKey.n)] >>]

rsaExportKey(format, key) ==
  LET pem == IF format = "spki" THEN key.pemPublicKey ELSE key.pemPrivateKey
  IN  IF pem = NoPem
      THEN Throw("Error",
                 IF format = "spki" THEN "Key does not contain public key material"
                 ELSE "Key does not contain private key material",
                 "none", "rsa")
      ELSE LET der == pemToArrayBuffer(pem)
           IN  IF ~der.ok THEN Throw("Error", der.msg, "none", "rsa")
               ELSE [NoOutcome EXCEPT !.routed = "rsa", !.bytes = der.bytes]

\* r: the randomness of the OAEP padding.
rsaEncrypt(key, dataBytes, r) ==
  IF key.forgePublicKey = 0
  THEN Throw("Error", "Key does not contain public key material", "none", "rsa")
  ELSE [NoOutcome EXCEPT !.routed = "rsa",
          !.bytes = ForgeRsaEncrypt(key.forgePublicKey, dataBytes, r)]

rsaDecrypt(key, dataBytes) ==
  IF key.forgePrivateKey = 0
  THEN Throw("Error", "Key does not contain private key material", "none", "rsa")
  ELSE LET decrypted == ForgeRsaDecrypt(key.forgePrivateKey, dataBytes)
       IN  IF ~decrypted.ok THEN Throw("Error", decrypted.msg, "none", "rsa")
           ELSE [NoOutcome EXCEPT !.routed = "rsa", !.bytes = decrypted.bytes]

(***************************************************************************)
(* The AES-GCM, PBKDF2, HMAC-SHA256 and SHA-256 adapters.                  *)
(***************************************************************************)
\* new Uint8Array(key._rawKey || key): no bytes when there is no raw key.
RawKeyBytes(h, key) == IF key.rawKey = 0 THEN <<>> ELSE h[key.rawKey]

\* params.tagLength || 128
TagLengthBits(params) == IF params.tagLength = 0 THEN 128 ELSE params.tagLength

\* The bytes forge gets from createBuffer(ivBytes.buffer) in aesGcmEncrypt: a
\* Uint8Array and an ArrayBuffer are used as they are, another view is copied.
EncryptIvBytes(iv) ==
  IF iv.u8 \/ iv.isBuffer THEN iv.buffer ELSE ViewBytes(iv)

\* In aesGcmDecrypt every view is wrapped, never copied.
DecryptIvBytes(iv) == iv.buffer

aesGcmEncrypt(params, keyBytes, dataBytes) ==
  IF ~ForgeAesKeyOk(keyBytes)
  THEN Throw("Error", "Invalid key parameter", "none", "aes")
  ELSE LET ivBytes == EncryptIvBytes(params.iv)
           encrypted == ForgeGcmCrypt(keyBytes, ivBytes, dataBytes, 1)
           tag == SubSeq(ForgeGcmTag(keyBytes, ivBytes, encrypted), 1,
                         ForgeGcmTagBytes(TagLengthBits(params) \div 8))
       IN  [NoOutcome EXCEPT !.routed = "aes", !.bytes = encrypted \o tag]

aesGcmDecrypt(params, keyBytes, dataBytes) ==
  LET tagLength == TagLengthBits(params) \div 8
  IN  IF Len(dataBytes) < tagLength
      THEN Throw("Error", "Encrypted data too short (missing tag)", "none", "aes")
      ELSE IF ~ForgeAesKeyOk(keyBytes)
      THEN Throw("Error", "Invalid key parameter", "none", "aes")
      ELSE LET ivBytes == DecryptIvBytes(params.iv)
               ciphertext == Slice(dataBytes, 0, Len(dataBytes) - tagLength)
               tag == SubSeq(dataBytes, Len(dataBytes) - tagLength + 1, Len(dataBytes))
               expected == SubSeq(ForgeGcmTag(keyBytes, ivBytes, ciphertext), 1,
                                  ForgeGcmTagBytes(tagLength * 8))
           IN  IF tag # expected
               THEN Throw("Error", "AES-GCM decryption failed: authentication tag mismatch",
                          "none", "aes")
               ELSE [NoOutcome EXCEPT !.routed = "aes",
                       !.bytes = ForgeGcmCrypt(keyBytes, ivBytes, ciphertext, -1)]

\* The salt bytes forge gets from createBuffer(saltBytes.buffer).
SaltBytes(salt) ==
  IF salt.u8 \/ salt.isBuffer THEN salt.buffer ELSE ViewBytes(salt)

\* The handle made by pbkdf2DeriveKey; its raw key is the new buffer id.
pbkdf2DeriveKey(params, baseKeyBytes, derivedKeyParams, id) ==
  [NoOutcome EXCEPT
     !.routed = "pbkdf2",
     !.newKeys =
       << [BlankKey EXCEPT !.type = "secret", !.extractable = FALSE,
             !.algorithm = [NoAlg EXCEPT !.name = "AES-GCM",
                              !.length = derivedKeyParams.length],
             !.usages = {"encrypt", "decrypt"}, !.rawKey = id] >>]

\* The bytes pbkdf2DeriveKey stores into the new buffer.
pbkdf2KeyMaterial(params, baseKeyBytes, derivedKeyParams) ==
  ForgePbkdf2(baseKeyBytes, SaltBytes(params.salt), params.iterations,
              derivedKeyParams.length \div 8)

hmacSign(keyBytes, dataBytes) ==
  [NoOutcome EXCEPT !.routed = "hmac", !.bytes = ForgeHmacSha256(keyBytes, dataBytes)]

RECURSIVE XorAccumulate(_, _, _)
\* result |= sigBytes[i] ^ expectedBytes[i]: zero iff all bytes are equal.
XorAccumulate(sigBytes, expectedBytes, i) ==
  IF i > Len(sigBytes) THEN 0
  ELSE BitOr(IF sigBytes[i] = expectedBytes[i] THEN 0 ELSE 1,
             XorAccumulate(sigBytes, expectedBytes, i + 1))

hmacVerify(keyBytes, sigBytes, dataBytes) ==
  LET expectedBytes == hmacSign(keyBytes, dataBytes).bytes
  IN  IF Len(sigBytes) # Len(expectedBytes)
      THEN [NoOutcome EXCEPT !.routed = "hmac", !.bool = FALSE]
      ELSE [NoOutcome EXCEPT !.routed = "hmac",
              !.bool = (XorAccumulate(sigBytes, expectedBytes, 1) = 0)]

sha256Digest(dataBytes) ==
  [NoOutcome EXCEPT !.routed = "sha256", !.bytes = ForgeSha256(dataBytes)]

(***************************************************************************)
(* The dispatcher: SubtleCryptoPolyfill.  Each operation is a function of  *)
(* the heap h and the arguments, and gives the outcome (out) and the heap  *)
(* after the call.                                                         *)
(***************************************************************************)
Done(h, out) == [out |-> out, heap |-> h]

NotSupportedError(msg, name) == Throw("NotSupportedError", msg, name, "none")

\* rnd: what the call draws from the random generator.
generateKey(h, algorithm, extractable, keyUsages, rnd) ==
  LET name == Normalized(algorithm) IN
  IF name = "Ed25519" THEN Done(h, ed25519GenerateKey(rnd.seed))
  ELSE IF name = "RSA-OAEP"
  THEN Done(h, rsaGenerateKey(algorithm, extractable, keyUsages, rnd.n))
  ELSE IF name = "AES-GCM"
  THEN LET keyLength == algorithm.length \div 8
           keyMaterial == [i \in 1..keyLength |-> rnd.fill]
       IN  [out |-> [NoOutcome EXCEPT
                       !.newKeys =
                         << [BlankKey EXCEPT !.type = "secret",
                               !.extractable = extractable,
                               !.algorithm = [NoAlg EXCEPT !.name = "AES-GCM",
                                                !.length = algorithm.length],
                               !.usages = keyUsages,
                               !.rawKey = Len(h) + 1] >>],
            heap |-> Append(h, keyMaterial)]
  ELSE Done(h, NotSupportedError("Algorithm is not supported", name))

\* keyData: [isBuffer, buf, byteOffset, byteLength], buf an ArrayBuffer of h.
\* An ArrayBuffer is taken as it is; the bytes of a view are copied.
\* A variant that takes the whole buffer under a view:
KeyBufferBytesOfBuffer(h, keyData) == h[keyData.buf]

KeyBufferBytes(h, keyData) ==
  IF keyData.isBuffer THEN h[keyData.buf]
  ELSE SubSeq(h[keyData.buf], keyData.byteOffset + 1,
              keyData.byteOffset + keyData.byteLength)

KeyBufferId(h, keyData) ==
  IF keyData.isBuffer THEN keyData.buf ELSE Len(h) + 1

\* The heap once a handle refers to keyBuffer.
KeyBufferHeap(h, keyData) ==
  IF keyData.isBuffer THEN h ELSE Append(h, KeyBufferBytes(h, keyData))

SecretKey(h, keyData, algorithm, extractable, keyUsages) ==
  [out |-> [NoOutcome EXCEPT
              !.newKeys =
                << [BlankKey EXCEPT !.type = "secret",
                      !.extractable = extractable,
                      !.algorithm = algorithm,
                      !.usages = keyUsages,
                      !.rawKey = KeyBufferId(h, keyData)] >>],
   heap |-> KeyBufferHeap(h, keyData)]

importKey(h, format, keyData, algorithm, extractable, keyUsages) ==
  IF format = "jwk"
  THEN Done(h, NotSupportedError("JWK format is not supported", "none"))
  ELSE LET name == Normalized(algorithm)
           keyBytes == KeyBufferBytes(h, keyData)
       IN
  IF name = "Ed25519"
  THEN Done(h, ed25519ImportKey(format, keyBytes, algorithm, extractable, keyUsages))
  ELSE IF name = "RSA-OAEP"
  THEN Done(h, rsaImportKey(format, keyBytes, algorithm, extractable, keyUsages))
  ELSE IF name = "AES-GCM"
  THEN IF format # "raw"
       THEN Done(h, Throw("Error", "AES-GCM keys can only be imported in 'raw' format",
                          "none", "none"))
       ELSE SecretKey(h, keyData,
                      [NoAlg EXCEPT !.name = "AES-GCM",
                         !.length = IF algorithm.length # 0 THEN algorithm.length
                                    ELSE Len(keyBytes) * 8],
                      extractable, keyUsages)
  ELSE IF name = "HMAC"
  THEN IF format # "raw"
       THEN Done(h, Throw("Error", "HMAC keys can only be imported in 'raw' format",
                          "none", "none"))
       ELSE SecretKey(h, keyData,
                      [NoAlg EXCEPT !.name = "HMAC", !.hash = algorithm.hash,
                         !.length = Len(keyBytes) * 8],
                      extractable, keyUsages)
  ELSE IF name = "PBKDF2"
  THEN SecretKey(h, keyData, Descriptor(algorithm), extractable, keyUsages)
  ELSE Done(h, NotSupportedError("Algorithm is not supported", name))

\* An exportKey whose "jwk" falls through to the raw export.
exportKeyJwkAsRaw(h, format, key) ==
  IF key.rawKey = 0
  THEN Done(h, NotSupportedError("JWK format is not supported", "none"))
  ELSE Done(h, [NoOutcome EXCEPT !.buf = key.rawKey, !.bytes = h[key.rawKey]])

exportKey(h, format, key) ==
  IF format = "jwk"
  THEN Done(h, NotSupportedError("JWK format is not supported", "none"))
  ELSE IF format = "raw"
  THEN IF key.rawKey = 0
       THEN Done(h, Throw("Error", "Key does not contain raw key material", "none", "none"))
       ELSE Done(h, [NoOutcome EXCEPT !.buf = key.rawKey, !.bytes = h[key.rawKey]])
  ELSE IF format \in {"spki", "pkcs8"}
  THEN IF key.algorithm.name = "Ed25519" THEN Done(h, ed25519ExportKey(format, key))
       ELSE IF key.algorithm.name = "RSA-OAEP" THEN Done(h, rsaExportKey(format, key))
       ELSE Done(h, Throw("Error", "Cannot export key in format", key.algorithm.name, "none"))
  ELSE Done(h, NotSupportedError("Export format is not supported", format))

sign(h, algorithm, key, data) ==
  LET dataBuffer == WholeBuffer(data)
      name == Normalized(algorithm)
  IN  IF name = "Ed25519" THEN Done(h, ed25519Sign(key, dataBuffer))
      ELSE IF name = "HMAC"
      THEN IF key.rawKey = 0
           THEN Done(h, Throw("Error", "Key does not contain raw key material", "none", "none"))
           ELSE Done(h, hmacSign(h[key.rawKey], dataBuffer))
      ELSE Done(h, NotSupportedError("Signing algorithm is not supported", name))

verify(h, algorithm, key, signature, data) ==
  LET sigBuffer == WholeBuffer(signature)
      dataBuffer == WholeBuffer(data)
      name == Normalized(algorithm)
  IN  IF name = "Ed25519" THEN Done(h, ed25519Verify(key, sigBuffer, dataBuffer))
      ELSE IF name = "HMAC"
      THEN IF key.rawKey = 0
           THEN Done(h, Throw("Error", "Key does not contain raw key material", "none", "none"))
           ELSE Done(h, hmacVerify(h[key.rawKey], sigBuffer, dataBuffer))
      ELSE Done(h, NotSupportedError("Verification algorithm is not supported", name))

\* r: the randomness of the RSA padding.
encrypt(h, algorithm, key, data, r) ==
  LET dataBuffer == WholeBuffer(data)
      name == RawName(algorithm)
  IN  IF name = "RSA-OAEP" THEN Done(h, rsaEncrypt(key, dataBuffer, r))
      ELSE IF name = "AES-GCM"
      THEN Done(h, aesGcmEncrypt(algorithm, RawKeyBytes(h, key), dataBuffer))
      ELSE Done(h, NotSupportedError("Encryption algorithm is not supported", name))

decrypt(h, algorithm, key, data) ==
  LET dataBuffer == WholeBuffer(data)
      name == RawName(algorithm)
  IN  IF name = "RSA-OAEP" THEN Done(h, rsaDecrypt(key, dataBuffer))
      ELSE IF name = "AES-GCM"
      THEN Done(h, aesGcmDecrypt(algorithm, RawKeyBytes(h, key), dataBuffer))
      ELSE Done(h, NotSupportedError("Decryption algorithm is not supported", name))

\* A deriveKey that clears the password once the key is derived.
deriveKeyClearingBase(h, algorithm, baseKey, derivedKeyType, extractable, keyUsages) ==
  IF RawName(algorithm) # "PBKDF2"
  THEN Done(h, NotSupportedError("Key derivation algorithm is not supported",
                                 RawName(algorithm)))
  ELSE IF baseKey.rawKey = 0
  THEN Done(h, Throw("Error", "Base key does not contain raw key material", "none", "none"))
  ELSE [out |-> pbkdf2DeriveKey(algorithm, h[baseKey.rawKey], derivedKeyType, Len(h) + 1),
        heap |-> Append([h EXCEPT ![baseKey.rawKey] = <<>>],
                        pbkdf2KeyMaterial(algorithm, h[baseKey.rawKey], derivedKeyType))]

deriveKey(h, algorithm, baseKey, derivedKeyType, extractable, keyUsages) ==
  IF RawName(algorithm) # "PBKDF2"
  THEN Done(h, NotSupportedError("Key derivation algorithm is not supported",
                                 RawName(algorithm)))
  ELSE IF baseKey.rawKey = 0
  THEN Done(h, Throw("Error", "Base key does not contain raw key material", "none", "none"))
  ELSE [out |-> pbkdf2DeriveKey(algorithm, h[baseKey.rawKey], derivedKeyType, Len(h) + 1),
        heap |-> Append(h, pbkdf2KeyMaterial(algorithm, h[baseKey.rawKey], derivedKeyType))]

digest(h, algorithm, data) ==
  LET dataBuffer == WholeBuffer(data)
      alg == Normalized(algorithm)
  IN  IF alg = "SHA-256" THEN Done(h, sha256Digest(dataBuffer))
      ELSE Done(h, NotSupportedError("Digest algorithm is not supported", alg))

deriveBits(h, algorithm, baseKey, length) ==
  Done(h, NotSupportedError("deriveBits is not implemented", "none"))

\* A wrapKey that hands out the raw key bytes.
wrapKeyByExport(h, format, key, wrappingKey, wrapAlgorithm) ==
  IF format = "raw" /\ key.rawKey # 0
  THEN Done(h, [NoOutcome EXCEPT !.bytes = h[key.rawKey]])
  ELSE Done(h, NotSupportedError("wrapKey is not implemented", "none"))

wrapKey(h, format, key, wrappingKey, wrapAlgorithm) ==
  Done(h, NotSupportedError("wrapKey is not implemented", "none"))

unwrapKey(h, format, wrappedKey, unwrappingKey, unwrapAlgorithm, unwrappedKeyAlgorithm, extractable, keyUsages) ==
  Done(h, NotSupportedError("unwrapKey is not implemented", "none"))

(***************************************************************************)
(* The caller: the values it passes and the buffers it owns.               *)
(***************************************************************************)
\* The k-th value of the random generator: a seed, a modulus, key bytes.
Seed(k) == [i \in 1..ED25519_SEED_SIZE |-> (37 * k + i) % 256]

Random(k) == [seed |-> Seed(k), n |-> k, fill |-> 16 * k]

\* The first message is "Hello".
Msg(k) == <<72, 101, 108, 108, 110 + k>>

Names == {"Ed25519", "RSA-OAEP", "AES-GCM", "HMAC", "PBKDF2", "SHA-256", "FOO"}

Forms == {"str", "obj"}

Formats == {"raw", "spki", "pkcs8", "jwk"}

\* The formats and the identifiers passed to wrapKey and unwrapKey.
WrapFormats == {"raw", "jwk"}

WrapAlgs == {AlgId("str", "AES-GCM"), AlgId("obj", "RSA-OAEP"), AlgId("obj", "FOO")}

\* The extractable flag and the usages a caller asks for.
KeyArgs ==
  { [extractable |-> TRUE, usages |-> {"sign", "verify"}],
    [extractable |-> FALSE, usages |-> {"encrypt", "decrypt", "deriveKey"}] }

\* The identifiers a caller passes.  A string carries no parameters; an
\* object carries those of the operation: generateKey, importKey,
\* encrypt/decrypt, deriveKey.
GenAlg(form, name) ==
  IF form = "str" THEN AlgId("str", name)
  ELSE [AlgId("obj", name) EXCEPT
          !.length = IF name = "AES-GCM" THEN 128 ELSE 0,
          !.hash = IF name = "RSA-OAEP" THEN "SHA-256" ELSE "none",
          !.modulusLength = IF name = "RSA-OAEP" THEN ModulusLength ELSE 0,
          !.publicExponent = IF name = "RSA-OAEP" THEN <<1, 0, 1>> ELSE <<>>]

ImportAlg(form, name) ==
  IF form = "str" THEN AlgId("str", name)
  ELSE [AlgId("obj", name) EXCEPT
          !.hash = IF name \in {"RSA-OAEP", "HMAC"} THEN "SHA-256" ELSE "none"]

CipherAlg(form, name) ==
  IF form = "str" THEN AlgId("str", name)
  ELSE [AlgId("obj", name) EXCEPT
          !.iv = IF name = "AES-GCM" THEN Buffer([i \in 1..12 |-> 200 + i])
                 ELSE Buffer(<<>>),
          !.tagLength = IF name = "AES-GCM" THEN 128 ELSE 0]

DeriveAlg(form, name) ==
  IF form = "str" THEN AlgId("str", name)
  ELSE [AlgId("obj", name) EXCEPT
          !.hash = IF name = "PBKDF2" THEN "SHA-256" ELSE "none",
          !.salt = IF name = "PBKDF2" THEN Buffer([i \in 1..16 |-> 66])
                   ELSE Buffer(<<>>),
          !.iterations = IF name = "PBKDF2" THEN 1000 ELSE 0]

\* The buffers the caller owns: a raw key, a larger buffer to take a view of,
\* and the containers of an Ed25519 and of an RSA key pair.
CallerBuffers ==
  << [i \in 1..16 |-> i],
     [i \in 1..20 |-> 100 + i],
     encodeEd25519PublicKeyToSPKI(NaclPublicOf(Seed(1))).bytes,
     encodeEd25519PrivateKeyToPKCS8(Seed(1)).bytes,
     ForgeSpkiDer(1),
     ForgePkcs8Der(1) >>

KeyDataBuffer(b) == [isBuffer |-> TRUE, buf |-> b, byteOffset |-> 0, byteLength |-> 0]

KeyDataView(b, offset, length) ==
  [isBuffer |-> FALSE, buf |-> b, byteOffset |-> offset, byteLength |-> length]

\* The keyData a caller passes with a format and a name: the container of
\* that format (as "raw" for Ed25519 and RSA-OAEP: the private container),
\* or the raw key as an ArrayBuffer, for AES-GCM also as a 16-byte view at
\* offset 2 of a larger buffer.
KeyDataArgs(format, name) ==
  IF name = "RSA-OAEP" /\ format = "spki" THEN {KeyDataBuffer(5)}
  ELSE IF name = "RSA-OAEP" /\ format \in {"pkcs8", "raw"} THEN {KeyDataBuffer(6)}
  ELSE IF format = "spki" THEN {KeyDataBuffer(3)}
  ELSE IF format = "pkcs8" \/ (format = "raw" /\ name = "Ed25519") THEN {KeyDataBuffer(4)}
  ELSE IF name = "AES-GCM" THEN {KeyDataBuffer(1), KeyDataView(2, 2, 16)}
  ELSE {KeyDataBuffer(1)}

DataArgs ==
  {Buffer(Msg(k)) : k \in 1..MaxMsgIx} \cup {Uint8View(<<0>> \o Msg(1), 1, 5)}

\* No call is pending: the caller has taken the outcome of the last one.
Idle == call.op = "none"

\* The bytes the pending call returned, which the caller may pass on.
Returned == IF result.ok /\ result.bytes # Undef THEN {Buffer(result.bytes)} ELSE {}

\* A signature: the bytes just returned, or 64 zero bytes.
SignatureArgs ==
  IF Idle THEN {Buffer([i \in 1..ED25519_SIGNATURE_SIZE |-> 0])} ELSE Returned

\* A ciphertext: the bytes just returned, or three bytes.
CipherArgs == IF Idle THEN {Buffer(<<1, 2, 3>>)} ELSE Returned

NoCall ==
  [op |-> "none", form |-> "none", name |-> "none", format |-> "none",
   key |-> 0, extractable |-> FALSE, usages |-> {}, keyData |-> 0]

CallOf(op, algorithm) ==
  [NoCall EXCEPT !.op = op, !.form = algorithm.form, !.name = algorithm.name]

(***************************************************************************)
(* The state machine: one action per operation of the dispatcher.  The     *)
(* body of every operation runs to its end when it is called; the caller   *)
(* then takes the outcome (Settle) and makes its next call.                *)
(***************************************************************************)
\* The record of an Ed25519 round trip: the pair generated from a seed, what
\* exporting a key of it gave, what importing that gave, the second export,
\* a signature and its verification.
NoProbe ==
  [fn |-> "none", seed |-> 0, pair |-> <<>>, format |-> "none",
   exported |-> NoOutcome, again |-> NoOutcome, exportedAgain |-> NoOutcome,
   msg |-> 0, signature |-> NoOutcome, verdict |-> NoOutcome]

\* The call returns: its new handles are stored, the caller gets the outcome.
Return(c, r) ==
  /\ Len(keys) + Len(r.out.newKeys) <= MaxKeys
  /\ keys' = keys \o r.out.newKeys
  /\ heap' = r.heap
  /\ call' = c
  /\ result' = [r.out EXCEPT
                  !.newKeys = [i \in 1..Len(r.out.newKeys) |-> Len(keys) + i]]
  /\ UNCHANGED <<writes, probe>>

Init ==
  /\ keys = <<>>
  /\ heap = CallerBuffers
  /\ writes = 0
  /\ call = NoCall
  /\ result = NoOutcome
  /\ probe = NoProbe

GenerateKey ==
  /\ Idle
  /\ \E form \in Forms, name \in Names, args \in KeyArgs, k \in 1..MaxSeedIx :
       /\ Return([CallOf("generateKey", GenAlg(form, name)) EXCEPT
                    !.extractable = args.extractable, !.usages = args.usages],
                 generateKey(heap, GenAlg(form, name), args.extractable, args.usages,
                             Random(k)))

ImportKey ==
  /\ Idle
  /\ \E format \in Formats, form \in Forms, name \in Names, args \in KeyArgs :
       \E keyData \in KeyDataArgs(format, name) :
         /\ Return([CallOf("importKey", ImportAlg(form, name)) EXCEPT
                      !.format = format, !.keyData = keyData.buf,
                      !.extractable = args.extractable, !.usages = args.usages],
                   importKey(heap, format, keyData, ImportAlg(form, name),
                             args.extractable, args.usages))

ExportKey ==
  /\ Idle
  /\ \E format \in Formats, k \in DOMAIN keys :
       /\ Return([NoCall EXCEPT !.op = "exportKey", !.format = format, !.key = k],
                 exportKey(heap, format, keys[k]))

Sign ==
  /\ Idle
  /\ \E form \in Forms, name \in Names, k \in DOMAIN keys, data \in DataArgs :
       /\ Return([CallOf("sign", AlgId(form, name)) EXCEPT !.key = k],
                 sign(heap, AlgId(form, name), keys[k], data))

\* The signature is 64 zero bytes, or the one the pending sign returned,
\* verified under the identifier it was made with.
Verify ==
  /\ Idle \/ call.op = "sign"
  /\ \E form \in Forms, name \in Names, k \in DOMAIN keys,
        signature \in SignatureArgs, data \in DataArgs :
       /\ Idle \/ (form = call.form /\ name = call.name)
       /\ Return([CallOf("verify", AlgId(form, name)) EXCEPT !.key = k],
                 verify(heap, AlgId(form, name), keys[k], signature, data))

Encrypt ==
  /\ Idle
  /\ \E form \in Forms, name \in Names, k \in DOMAIN keys, data \in DataArgs :
       /\ Return([CallOf("encrypt", CipherAlg(form, name)) EXCEPT !.key = k],
                 encrypt(heap, CipherAlg(form, name), keys[k], data, 1))

Decrypt ==
  /\ Idle \/ call.op = "encrypt"
  /\ \E form \in Forms, name \in Names, k \in DOMAIN keys, data \in CipherArgs :
       /\ Idle \/ (form = call.form /\ name = call.name)
       /\ Return([CallOf("decrypt", CipherAlg(form, name)) EXCEPT !.key = k],
                 decrypt(heap, CipherAlg(form, name), keys[k], data))

DeriveKey ==
  /\ Idle
  /\ \E form \in Forms, name \in Names, k \in DOMAIN keys, args \in KeyArgs :
       /\ Return([CallOf("deriveKey", DeriveAlg(form, name)) EXCEPT
                    !.key = k, !.extractable = args.extractable, !.usages = args.usages],
                 deriveKey(heap, DeriveAlg(form, name), keys[k],
                           GenAlg("obj", "AES-GCM"), args.extractable, args.usages))

Digest ==
  /\ Idle
  /\ \E form \in Forms, name \in Names, data \in DataArgs :
       /\ Return(CallOf("digest", AlgId(form, name)),
                 digest(heap, AlgId(form, name), data))

DeriveBits ==
  /\ Idle
  /\ \E form \in Forms, name \in Names, k \in DOMAIN keys :
       /\ Return([CallOf("deriveBits", AlgId(form, name)) EXCEPT !.key = k],
                 deriveBits(heap, AlgId(form, name), keys[k], 256))

WrapKey ==
  /\ Idle
  /\ \E format \in WrapFormats, k \in DOMAIN keys, wrapAlgorithm \in WrapAlgs :
       /\ Return([CallOf("wrapKey", wrapAlgorithm) EXCEPT
                    !.format = format, !.key = k],
                 wrapKey(heap, format, keys[k], keys[k], wrapAlgorithm))

UnwrapKey ==
  /\ Idle
  /\ \E format \in WrapFormats, k \in DOMAIN keys, unwrapAlgorithm \in WrapAlgs :
       /\ Return([CallOf("unwrapKey", unwrapAlgorithm) EXCEPT
                    !.format = format, !.key = k],
                 unwrapKey(heap, format, Buffer(<<1, 2, 3>>), keys[k],
                           unwrapAlgorithm, GenAlg("obj", "AES-GCM"),
                           TRUE, {"encrypt", "decrypt"}))

\* The caller takes the outcome of the pending call.
Settle ==
  /\ ~Idle
  /\ call' = NoCall
  /\ result' = NoOutcome
  /\ UNCHANGED <<keys, heap, writes, probe>>

\* The buffers the pending call shares with the caller: the keyData an
\* importKey took, the buffer an exportKey returned.
Shared ==
  IF ~result.ok THEN {}
  ELSE IF call.op = "importKey" THEN {call.keyData}
  ELSE IF call.op = "exportKey" /\ result.buf # 0 THEN {result.buf}
  ELSE {}

\* After the call has returned, the caller stores 255 into the first byte
\* of the buffer it passed or got.
CallerWrite ==
  /\ writes < MaxWrites
  /\ \E b \in Shared :
       /\ heap' = [heap EXCEPT ![b][1] = 255]
       /\ writes' = writes + 1
       /\ call' = [NoCall EXCEPT !.op = "write", !.keyData = b]
       /\ result' = NoOutcome
       /\ UNCHANGED <<keys, probe>>

Next ==
  \/ GenerateKey
  \/ ImportKey
  \/ ExportKey
  \/ Sign
  \/ Verify
  \/ Encrypt
  \/ Decrypt
  \/ DeriveKey
  \/ Digest
  \/ DeriveBits
  \/ WrapKey
  \/ UnwrapKey
  \/ Settle

Spec == Init /\ [][Next]_vars

\* The caller also writes into the buffers it has shared with the engine.
NextShared ==
  \/ ImportKey
  \/ ExportKey
  \/ Settle
  \/ CallerWrite

SpecShared == Init /\ [][NextShared]_vars

(***************************************************************************)
(* The Ed25519 round trip: generate, export, import, export again, sign    *)
(* and verify, each step applying the adapter to what the last one gave.   *)
(***************************************************************************)
RoundTripFormats == {"spki", "pkcs8"}

\* The key a format exports: the public key as SPKI, the private as PKCS#8.
ExportedKey(p) == IF p.format = "spki" THEN p.pair[1] ELSE p.pair[2]

\* The signer is a private key and the verifier a public key, one of them
\* the original and the other the imported one.
Signer(p) == IF p.format = "spki" THEN p.pair[2] ELSE p.again.newKeys[1]

Verifier(p) == IF p.format = "spki" THEN p.again.newKeys[1] ELSE p.pair[1]

RoundTripGenerate ==
  /\ probe.fn = "none"
  /\ \E k \in 1..MaxRoundTrips :
       probe' = [NoProbe EXCEPT !.fn = "generate", !.seed = k,
                   !.pair = ed25519GenerateKey(Seed(k)).newKeys]
  /\ UNCHANGED <<keys, heap, writes, call, result>>

RoundTripExport ==
  /\ probe.fn = "generate"
  /\ \E format \in RoundTripFormats :
       probe' = [probe EXCEPT !.fn = "export", !.format = format,
                   !.exported =
                     ed25519ExportKey(format, ExportedKey([probe EXCEPT !.format = format]))]
  /\ UNCHANGED <<keys, heap, writes, call, result>>

RoundTripImport ==
  /\ probe.fn = "export"
  /\ probe.exported.ok
  /\ \E args \in KeyArgs :
       probe' = [probe EXCEPT !.fn = "import",
                   !.again = ed25519ImportKey(probe.format, probe.exported.bytes,
                                              AlgId("obj", "Ed25519"),
                                              args.extractable, args.usages)]
  /\ UNCHANGED <<keys, heap, writes, call, result>>

RoundTripExportAgain ==
  /\ probe.fn = "import"
  /\ probe.again.ok
  /\ probe' = [probe EXCEPT !.fn = "exportAgain",
                 !.exportedAgain = ed25519ExportKey(probe.format, probe.again.newKeys[1])]
  /\ UNCHANGED <<keys, heap, writes, call, result>>

RoundTripSign ==
  /\ probe.fn = "import"
  /\ probe.again.ok
  /\ \E m \in 1..MaxMsgIx :
       probe' = [probe EXCEPT !.fn = "sign", !.msg = m,
                   !.signature = ed25519Sign(Signer(probe), Msg(m))]
  /\ UNCHANGED <<keys, heap, writes, call, result>>

RoundTripVerify ==
  /\ probe.fn = "sign"
  /\ probe.signature.ok
  /\ probe' = [probe EXCEPT !.fn = "verify",
                 !.verdict = ed25519Verify(Verifier(probe), probe.signature.bytes,
                                           Msg(probe.msg))]
  /\ UNCHANGED <<keys, heap, writes, call, result>>

NextRoundTrip ==
  \/ RoundTripGenerate
  \/ RoundTripExport
  \/ RoundTripImport
  \/ RoundTripExportAgain
  \/ RoundTripSign
  \/ RoundTripVerify

SpecRoundTrip == Init /\ [][NextRoundTrip]_vars

(***************************************************************************)
(* What the claims speak of.                                               *)
(***************************************************************************)
\* The handle the pending call consumes.
Consumed == keys[call.key]

\* The bytes of a handle's key material in a heap.
Material(h, key) == IF key.rawKey = 0 THEN Undef ELSE h[key.rawKey]

\* The operations that consume a handle under one of its usages.
UsageOps == {"sign", "verify", "encrypt", "decrypt", "deriveKey"}

\* The names each operation has an adapter for.
Supported(op) ==
  IF op = "generateKey" THEN {"Ed25519", "RSA-OAEP", "AES-GCM"}
  ELSE IF op = "importKey" THEN {"Ed25519", "RSA-OAEP", "AES-GCM", "HMAC", "PBKDF2"}
  ELSE IF op \in {"sign", "verify"} THEN {"Ed25519", "HMAC"}
  ELSE IF op \in {"encrypt", "decrypt"} THEN {"RSA-OAEP", "AES-GCM"}
  ELSE IF op = "deriveKey" THEN {"PBKDF2"}
  ELSE IF op = "digest" THEN {"SHA-256"}
  ELSE {}

\* The formats an algorithm's keys are imported from and exported to.
FormatsOf(name) ==
  IF name \in {"Ed25519", "RSA-OAEP"} THEN {"spki", "pkcs8"}
  ELSE IF name \in {"AES-GCM", "HMAC", "PBKDF2"} THEN {"raw"}
  ELSE {}

\* The pending importKey or exportKey names a pair with no adapter.
NoAdapterPair ==
  \/ /\ call.op = "importKey"
     /\ call.name \in Supported("importKey")
     /\ call.format \in {"raw", "spki", "pkcs8"} \ FormatsOf(call.name)
  \/ /\ call.op = "exportKey"
     /\ call.format \in {"raw", "spki", "pkcs8"} \ FormatsOf(Consumed.algorithm.name)

(***************************************************************************)
(* The claims.                                                             *)
(***************************************************************************)
\* C1: exportKey fails, and returns no key bytes, whenever the handle it is
\* given has extractable = false, whatever the format and the algorithm.
C1_ExportNeedsExtractable ==
  (call.op = "exportKey" /\ ~Consumed.extractable)
    => (~result.ok /\ result.bytes = Undef /\ result.buf = 0)

\* C2: sign, verify, encrypt, decrypt and deriveKey fail when the operation
\* is not among the usages of the handle they are given.
C2_UsageChecked ==
  (call.op \in UsageOps /\ call.op \notin Consumed.usages) => ~result.ok

\* C3: a handle is the single owner of its key bytes: a store into the
\* buffer the caller passed to importKey, or into the buffer exportKey
\* returned, changes the material of no handle, and no two handles refer to
\* one buffer.
C3_SingleOwner ==
  [][ /\ call'.op = "write" =>
           \A k \in DOMAIN keys : Material(heap', keys[k]) = Material(heap, keys[k])
      /\ \A i, j \in DOMAIN keys' :
           (i # j /\ keys'[i].rawKey # 0) => keys'[i].rawKey # keys'[j].rawKey ]_vars

\* C4: sign, verify, encrypt, decrypt, deriveKey and exportKey leave every
\* handle as it was, the consumed one included: its fields and the bytes of
\* its key material are the same after the call as before it.
C4_HandlesUnchanged ==
  [][ call'.op \in UsageOps \cup {"exportKey"} =>
        \A k \in DOMAIN keys :
          /\ keys'[k] = keys[k]
          /\ Material(heap', keys[k]) = Material(heap, keys[k]) ]_vars

C4_Witness ==
  /\ call.op = "deriveKey"
  /\ result.ok
  /\ Len(result.newKeys) = 1
  /\ Material(heap, Consumed) # Undef

\* C5: deriveBits, wrapKey and unwrapKey reject every call with a
\* NotSupportedError: they return no bytes and create no handle.
C5_NotImplemented ==
  call.op \in {"deriveBits", "wrapKey", "unwrapKey"}
    => /\ ~result.ok
       /\ result.err = "NotSupportedError"
       /\ result.bytes = Undef
       /\ result.newKeys = <<>>

C5_Witness ==
  /\ call.op = "wrapKey"
  /\ call.format = "raw"
  /\ Consumed.rawKey # 0
  /\ result.err = "NotSupportedError"

\* C6: importKey and exportKey with the format "jwk" reject with the
\* NotSupportedError of the unsupported algorithms, for every algorithm and
\* key, before any adapter is entered and without creating a handle.
C6_JwkRejected ==
  (call.op \in {"importKey", "exportKey"} /\ call.format = "jwk")
    => /\ ~result.ok
       /\ result.err = "NotSupportedError"
       /\ result.msg = "JWK format is not supported"
       /\ result.routed = "none"
       /\ result.bytes = Undef
       /\ result.newKeys = <<>>

C6_Witness ==
  /\ call.op = "exportKey"
  /\ call.format = "jwk"
  /\ Consumed.rawKey # 0
  /\ result.err = "NotSupportedError"

\* C7: a call of generateKey, importKey, sign, verify, encrypt, decrypt,
\* deriveKey or digest with a name the operation has no adapter for rejects
\* with a NotSupportedError that names the name passed (the calls with
\* format "jwk", which are rejected for their format, aside).
C7_UnsupportedNamed ==
  (/\ Supported(call.op) # {}
   /\ call.name \notin Supported(call.op)
   /\ call.format # "jwk")
    => (~result.ok /\ result.err = "NotSupportedError" /\ result.name = call.name)

\* C8: an importKey or exportKey of a (name, format) pair with no adapter
\* rejects with a NotSupportedError; it enters no adapter and gives neither
\* a handle nor bytes.
C8_NoAdapterRejected ==
  NoAdapterPair
    => /\ ~result.ok
       /\ result.err = "NotSupportedError"
       /\ result.routed = "none"
       /\ result.newKeys = <<>>

\* C9: every operation gives, for the string "X", the outcome it gives for
\* the object {name: "X"}, with every handle and every message.
C9_StringAsObject ==
  \A name \in Names :
    LET str == AlgId("str", name)
        obj == AlgId("obj", name)
    IN  /\ \A args \in KeyArgs :
             generateKey(heap, str, args.extractable, args.usages, Random(1)).out
               = generateKey(heap, obj, args.extractable, args.usages, Random(1)).out
        /\ \A format \in Formats, args \in KeyArgs :
             \A keyData \in KeyDataArgs(format, name) :
               importKey(heap, format, keyData, str, args.extractable, args.usages).out
                 = importKey(heap, format, keyData, obj, args.extractable, args.usages).out
        /\ \A data \in DataArgs : digest(heap, str, data).out = digest(heap, obj, data).out
        /\ \A k \in DOMAIN keys, data \in DataArgs :
             /\ sign(heap, str, keys[k], data).out = sign(heap, obj, keys[k], data).out
             /\ \A signature \in SignatureArgs :
                  verify(heap, str, keys[k], signature, data).out
                    = verify(heap, obj, keys[k], signature, data).out
             /\ encrypt(heap, str, keys[k], data, 1).out
                  = encrypt(heap, obj, keys[k], data, 1).out
             /\ decrypt(heap, str, keys[k], data).out
                  = decrypt(heap, obj, keys[k], data).out
        /\ \A k \in DOMAIN keys, args \in KeyArgs :
             deriveKey(heap, str, keys[k], GenAlg("obj", "AES-GCM"),
                       args.extractable, args.usages).out
               = deriveKey(heap, obj, keys[k], GenAlg("obj", "AES-GCM"),
                           args.extractable, args.usages).out

\* C10: an Ed25519 key exported and imported again is the same key: the
\* imported public key holds the 32 bytes of the original and the imported
\* private key its 64-byte secret key; a signature made with the private
\* key verifies against the public key across the round trip; and exporting
\* the imported key gives the bytes of the first export.
C10_RoundTrip ==
  /\ probe.fn = "export" => probe.exported.ok
  /\ probe.fn = "import" =>
       /\ probe.again.ok
       /\ Len(probe.again.newKeys) = 1
       /\ probe.format = "spki" =>
            /\ probe.again.newKeys[1].rawPublicKey = probe.pair[1].rawPublicKey
            /\ Len(probe.again.newKeys[1].rawPublicKey) = ED25519_PUBLIC_KEY_SIZE
       /\ probe.format = "pkcs8" =>
            /\ probe.again.newKeys[1].rawPrivateKey = probe.pair[2].rawPrivateKey
            /\ Len(probe.again.newKeys[1].rawPrivateKey) = ED25519_SECRET_KEY_SIZE
  /\ probe.fn = "exportAgain" =>
       /\ probe.exportedAgain.ok
       /\ probe.exportedAgain.bytes = probe.exported.bytes
  /\ probe.fn = "sign" => probe.signature.ok
  /\ probe.fn = "verify" => (probe.verdict.ok /\ probe.verdict.bool)

C10_Witness ==
  /\ probe.fn = "verify"
  /\ probe.format = "spki"
  /\ probe.verdict.bool
  /\ probe.again.newKeys[1].rawPublicKey = NaclPublicOf(Seed(probe.seed))

(***************************************************************************)
(* The raw round trip: a raw key is imported and exported at once.         *)
(***************************************************************************)
RawNames == {"AES-GCM", "HMAC"}

\* The lengths of the views a caller takes of its 20-byte buffer.
ViewLengths == {8, 16}

\* A raw key: an ArrayBuffer, or a view of a larger buffer.
RawKeyData ==
  {KeyDataBuffer(1), KeyDataBuffer(2)}
    \cup {KeyDataView(2, offset, length) : offset \in 0..MaxOffset, length \in ViewLengths}

RawTripImport ==
  /\ probe.fn = "none"
  /\ \E name \in RawNames, form \in Forms, args \in KeyArgs, keyData \in RawKeyData :
       probe' = [fn |-> "rawImport", keyData |-> keyData,
                 imported |-> importKey(heap, "raw", keyData, ImportAlg(form, name),
                                        args.extractable, args.usages)]
  /\ UNCHANGED <<keys, heap, writes, call, result>>

RawTripExport ==
  /\ probe.fn = "rawImport"
  /\ probe.imported.out.ok
  /\ probe' = [fn |-> "rawExport", keyData |-> probe.keyData,
               imported |-> probe.imported,
               exported |-> exportKey(probe.imported.heap, "raw",
                                      probe.imported.out.newKeys[1]).out]
  /\ UNCHANGED <<keys, heap, writes, call, result>>

NextRawTrip ==
  \/ RawTripImport
  \/ RawTripExport

SpecRawTrip == Init /\ [][NextRawTrip]_vars

\* The bytes k a keyData denotes: the buffer, or the window of the view.
BytesOf(h, keyData) ==
  IF keyData.isBuffer THEN h[keyData.buf]
  ELSE [i \in 1..keyData.byteLength |-> h[keyData.buf][keyData.byteOffset + i]]

\* C11: exporting as 'raw' an AES-GCM or HMAC key imported as 'raw' from k
\* gives exactly the bytes of k, for k an ArrayBuffer and for k a view at any
\* offset of a larger buffer.
C11_RawRoundTrip ==
  /\ probe.fn = "rawImport" => probe.imported.out.ok
  /\ probe.fn = "rawExport" =>
       /\ probe.exported.ok
       /\ probe.exported.bytes = BytesOf(heap, probe.keyData)

C11_Witness ==
  /\ probe.fn = "rawExport"
  /\ ~probe.keyData.isBuffer
  /\ probe.keyData.byteOffset > 0
  /\ probe.exported.bytes = BytesOf(heap, probe.keyData)
  /\ probe.exported.bytes # heap[probe.keyData.buf]

(***************************************************************************)
(* Signing and verifying through the dispatcher: a key is made, a message  *)
(* is signed, and the signature (or a changed one) is verified.            *)
(***************************************************************************)
SignNames == {"Ed25519", "HMAC"}

\* The messages: standalone buffers, and two 5-byte views of one buffer.
SignData ==
  DataArgs \cup {Buffer(Msg(MaxMsgIx + 1)), Uint8View(<<0>> \o Msg(1), 0, 5)}

\* The signer and the verifier among the handles a call made, and the heap.
PairKeys(made) ==
  [signer |-> made.out.newKeys[2], verifier |-> made.out.newKeys[1], heap |-> made.heap]

SecretKeys(made) ==
  [signer |-> made.out.newKeys[1], verifier |-> made.out.newKeys[1], heap |-> made.heap]

\* The keys of the k-th pair or secret.
SignKeys(name, k) ==
  IF name = "Ed25519"
  THEN PairKeys(generateKey(heap, AlgId("obj", "Ed25519"), TRUE, {"sign", "verify"},
                            Random(k)))
  ELSE SecretKeys(importKey(heap, "raw", KeyDataBuffer(k), ImportAlg("obj", "HMAC"),
                            TRUE, {"sign", "verify"}))

\* The signature with the lowest bit of its byte j flipped.
FlipBit(bytes, j) ==
  [bytes EXCEPT ![j] = IF bytes[j] % 2 = 0 THEN bytes[j] + 1 ELSE bytes[j] - 1]

\* What the caller passes as the signature: sign's result, that with one bit
\* flipped (first or last byte), one byte shorter, or one byte longer.
SignatureKinds == {"same", "flipFirst", "flipLast", "short", "long"}

SignatureOf(bytes, kind) ==
  IF kind = "same" THEN bytes
  ELSE IF kind = "flipFirst" THEN FlipBit(bytes, 1)
  ELSE IF kind = "flipLast" THEN FlipBit(bytes, Len(bytes))
  ELSE IF kind = "short" THEN SubSeq(bytes, 1, Len(bytes) - 1)
  ELSE bytes \o <<0>>

SignTripSign ==
  /\ probe.fn = "none"
  /\ \E name \in SignNames, k \in 1..MaxKeys, data \in SignData :
       \E made \in {SignKeys(name, k)} :
         probe' = [fn |-> "signed", name |-> name, signer |-> made.signer,
                   verifier |-> made.verifier, heap |-> made.heap, data |-> data,
                   signed |-> sign(made.heap, AlgId("obj", name), made.signer, data).out]
  /\ UNCHANGED <<keys, heap, writes, call, result>>

\* A handle of another kind: without the material verify reads for name.
OtherKindKey(name) ==
  SignKeys(IF name = "Ed25519" THEN "HMAC" ELSE "Ed25519", 1).verifier

\* key: the handle passed to verify: the verifier, the signer (for Ed25519
\* the private key) or a handle of another kind.
SignTripVerify ==
  /\ probe.fn = "signed"
  /\ probe.signed.ok
  /\ \E other \in SignData, kind \in SignatureKinds, key \in {probe.verifier, probe.signer, OtherKindKey(probe.name)} :
       probe' = [fn |-> "verified", name |-> probe.name, signer |-> probe.signer,
                 verifier |-> probe.verifier, heap |-> probe.heap, data |-> probe.data,
                 signed |-> probe.signed, other |-> other, kind |-> kind, key |-> key,
                 verdict |-> verify(probe.heap, AlgId("obj", probe.name), key,
                                    Buffer(SignatureOf(probe.signed.bytes, kind)), other).out]
  /\ UNCHANGED <<keys, heap, writes, call, result>>

NextSignTrip ==
  \/ SignTripSign
  \/ SignTripVerify

SpecSignTrip == Init /\ [][NextSignTrip]_vars

\* The message a BufferSource denotes: the buffer, or the window of the view.
MessageOf(data) ==
  IF data.isBuffer THEN data.buffer
  ELSE [i \in 1..data.byteLength |-> data.buffer[data.byteOffset + i]]

\* C12: Ed25519 sign returns a 64-byte signature; verifying it with the
\* public key and the same message m gives true; with a message different
\* from m, or with the signature changed in one bit, verify gives false
\* and does not throw.
C12_Ed25519Correct ==
  probe.fn \in {"signed", "verified"} /\ probe.name = "Ed25519" =>
    /\ probe.signed.ok
    /\ Len(probe.signed.bytes) = ED25519_SIGNATURE_SIZE
    /\ probe.fn = "verified" /\ probe.key = probe.verifier =>
         /\ probe.kind = "same" /\ probe.other = probe.data =>
              probe.verdict.ok /\ probe.verdict.bool
         /\ probe.kind = "same" /\ MessageOf(probe.other) # MessageOf(probe.data) =>
              probe.verdict.ok /\ ~probe.verdict.bool
         /\ probe.kind \in {"flipFirst", "flipLast"} =>
              probe.verdict.ok /\ ~probe.verdict.bool

\* C13: HMAC sign returns 32 bytes and verifying them with the same key
\* and message gives true; verify gives false for the MAC of another
\* message, for a MAC changed in one bit, and (without throwing) for a
\* signature of another length.
C13_HmacSymmetry ==
  probe.fn \in {"signed", "verified"} /\ probe.name = "HMAC" =>
    /\ probe.signed.ok
    /\ Len(probe.signed.bytes) = 32
    /\ probe.fn = "verified" /\ probe.key = probe.verifier =>
         /\ probe.verdict.ok
         /\ probe.kind = "same" /\ probe.other = probe.data => probe.verdict.bool
         /\ probe.kind = "same" /\ MessageOf(probe.other) # MessageOf(probe.data) =>
              ~probe.verdict.bool
         /\ probe.kind # "same" => ~probe.verdict.bool

\* The material verify reads from the handle, and the size of a signature.
HasVerifyMaterial(name, key) ==
  IF name = "Ed25519" THEN key.rawPublicKey # Undef ELSE key.rawKey # 0

SignatureSize(name) == IF name = "Ed25519" THEN ED25519_SIGNATURE_SIZE ELSE 32

\* C18: verify (Ed25519 and HMAC) throws exactly when the handle lacks the
\* public or raw material or the signature has the wrong length; for a
\* signature of the right length that is not the signature of the message
\* it returns false and does not throw.
C18_VerifyThrowsIffMalformed ==
  probe.fn = "verified" =>
    LET signature == SignatureOf(probe.signed.bytes, probe.kind)
        wellFormed == /\ HasVerifyMaterial(probe.name, probe.key)
                      /\ Len(signature) = SignatureSize(probe.name)
        expected == sign(probe.heap, AlgId("obj", probe.name), probe.signer, probe.other).out
    IN  /\ ~probe.verdict.ok <=> ~wellFormed
        /\ wellFormed /\ signature # expected.bytes =>
             probe.verdict.ok /\ ~probe.verdict.bool

(***************************************************************************)
(* Encrypting and decrypting with AES-GCM through the dispatcher: a raw    *)
(* key is imported, a plaintext is encrypted, and the output (or a changed *)
(* one) is decrypted with the same parameters.                             *)
(***************************************************************************)
\* The tagLength of the parameters, in bits; 0: the member is omitted.
TagLengths == {0, 96, 128}

\* The iv: a 12-byte Uint8Array, or a 12-byte ArrayBuffer.
IvArgs ==
  {Uint8View([i \in 1..12 |-> 200 + i], 0, 12), Buffer([i \in 1..12 |-> 220 + i])}

AesParams(iv, tagLength) ==
  [AlgId("obj", "AES-GCM") EXCEPT !.iv = iv, !.tagLength = tagLength]

\* The 16-byte keys: the caller's buffer, or a view of its 20-byte buffer.
AesKeyData == {KeyDataBuffer(1), KeyDataView(2, 2, 16)}

\* What the caller passes to decrypt: the output of encrypt, that with one
\* bit flipped in its first byte (ciphertext part) or in its last byte (tag
\* part), or only its first three bytes (shorter than any tag).
CipherKinds == {"same", "flipFirst", "flipLast", "cut"}

CipherOf(bytes, kind) ==
  IF kind = "same" THEN bytes
  ELSE IF kind = "flipFirst" THEN FlipBit(bytes, 1)
  ELSE IF kind = "flipLast" THEN FlipBit(bytes, Len(bytes))
  ELSE SubSeq(bytes, 1, 3)

AesTripEncrypt ==
  /\ probe.fn = "none"
  /\ \E keyData \in AesKeyData, iv \in IvArgs, tagLength \in TagLengths, data \in SignData :
       \E made \in {importKey(heap, "raw", keyData, ImportAlg("obj", "AES-GCM"),
                              FALSE, {"encrypt", "decrypt"})} :
         probe' = [fn |-> "encrypted", key |-> made.out.newKeys[1], heap |-> made.heap,
                   params |-> AesParams(iv, tagLength), data |-> data,
                   encrypted |-> encrypt(made.heap, AesParams(iv, tagLength),
                                         made.out.newKeys[1], data, 0).out]
  /\ UNCHANGED <<keys, heap, writes, call, result>>

AesTripDecrypt ==
  /\ probe.fn = "encrypted"
  /\ probe.encrypted.ok
  /\ \E kind \in CipherKinds :
       probe' = [fn |-> "decrypted", key |-> probe.key, heap |-> probe.heap,
                 params |-> probe.params, data |-> probe.data,
                 encrypted |-> probe.encrypted, kind |-> kind,
                 decrypted |-> decrypt(probe.heap, probe.params, probe.key,
                                       Buffer(CipherOf(probe.encrypted.bytes, kind))).out]
  /\ UNCHANGED <<keys, heap, writes, call, result>>

NextAesTrip ==
  \/ AesTripEncrypt
  \/ AesTripDecrypt

SpecAesTrip == Init /\ [][NextAesTrip]_vars

\* C14: with a 128-bit tag (given or by default), decrypting the untouched
\* output of encrypt returns exactly the plaintext; decrypting it with one
\* byte changed, in the ciphertext part or in the tag part, rejects with
\* the authentication error and returns no bytes; an input shorter than the
\* tag is rejected too.
C14_TamperDetected ==
  probe.fn = "decrypted" /\ probe.params.tagLength \in {0, 128} =>
    /\ probe.kind = "same" =>
         probe.decrypted.ok /\ probe.decrypted.bytes = MessageOf(probe.data)
    /\ probe.kind \in {"flipFirst", "flipLast"} =>
         /\ ~probe.decrypted.ok
         /\ probe.decrypted.msg = "AES-GCM decryption failed: authentication tag mismatch"
         /\ probe.decrypted.bytes = Undef
    /\ probe.kind = "cut" => ~probe.decrypted.ok /\ probe.decrypted.bytes = Undef

\* The tag length in bytes the parameters ask for: tagLength / 8, 128 bits
\* when the member is omitted.
TagBytes(params) == (IF params.tagLength = 0 THEN 128 ELSE params.tagLength) \div 8

\* C15: for every tagLength (128 when omitted) the output of encrypt, for a
\* plaintext in an ArrayBuffer, is len(plaintext) + tagLength/8 bytes long,
\* and decrypting it with the same parameters returns the plaintext.
C15_OutputLayout ==
  probe.fn \in {"encrypted", "decrypted"} /\ probe.data.isBuffer =>
    /\ probe.encrypted.ok
    /\ Len(probe.encrypted.bytes) = Len(probe.data.buffer) + TagBytes(probe.params)
    /\ probe.fn = "decrypted" /\ probe.kind = "same" =>
         probe.decrypted.ok /\ probe.decrypted.bytes = probe.data.buffer

(***************************************************************************)
(* Deriving keys with PBKDF2 through the dispatcher: a password is         *)
(* imported, and deriveKey is called twice on it, one call after the other.*)
(***************************************************************************)
\* The salts: 16 bytes 0x42 as an ArrayBuffer, the same 16 bytes as a view
\* at offset 1 of a 17-byte buffer, and another salt.
SaltArgs ==
  {Buffer([i \in 1..16 |-> 66]), Uint8View(<<9>> \o [i \in 1..16 |-> 66], 1, 16),
   Buffer([i \in 1..16 |-> 67])}

DeriveIterations == {1000, 2000}

DeriveLengths == {128, 256}

Pbkdf2Params(salt, iterations) ==
  [AlgId("obj", "PBKDF2") EXCEPT !.hash = "SHA-256", !.salt = salt, !.iterations = iterations]

AesDerivedKeyParams(length) == [AlgId("obj", "AES-GCM") EXCEPT !.length = length]

DeriveTripFirst ==
  /\ probe.fn = "none"
  /\ \E keyData \in AesKeyData, salt \in SaltArgs, iterations \in DeriveIterations, length \in DeriveLengths :
       \E made \in {importKey(heap, "raw", keyData, ImportAlg("str", "PBKDF2"),
                              FALSE, {"deriveKey"})} :
         probe' = [fn |-> "derived", baseKey |-> made.out.newKeys[1], salt |-> salt,
                   iterations |-> iterations, length |-> length,
                   first |-> deriveKey(made.heap, Pbkdf2Params(salt, iterations),
                                       made.out.newKeys[1], AesDerivedKeyParams(length),
                                       TRUE, {"encrypt", "decrypt"})]
  /\ UNCHANGED <<keys, heap, writes, call, result>>

DeriveTripSecond ==
  /\ probe.fn = "derived"
  /\ \E salt \in SaltArgs, iterations \in DeriveIterations, length \in DeriveLengths :
       probe' = [fn |-> "derivedAgain", baseKey |-> probe.baseKey, salt |-> probe.salt,
                 iterations |-> probe.iterations, length |-> probe.length,
                 first |-> probe.first, saltAgain |-> salt, iterationsAgain |-> iterations,
                 lengthAgain |-> length,
                 second |-> deriveKey(probe.first.heap, Pbkdf2Params(salt, iterations),
                                      probe.baseKey, AesDerivedKeyParams(length),
                                      TRUE, {"encrypt", "decrypt"})]
  /\ UNCHANGED <<keys, heap, writes, call, result>>

NextDeriveTrip ==
  \/ DeriveTripFirst
  \/ DeriveTripSecond

SpecDeriveTrip == Init /\ [][NextDeriveTrip]_vars

\* The raw material of the handle a deriveKey call returned.
DerivedMaterial(r) == r.heap[r.out.newKeys[1].rawKey]

\* C16: deriveKey returns material of exactly length/8 bytes, and two calls
\* on the same base key with the same salt bytes, iteration count, hash and
\* length return byte-identical material, whatever call came before.
C16_Pbkdf2Deterministic ==
  /\ probe.fn \in {"derived", "derivedAgain"} =>
       /\ probe.first.out.ok
       /\ Len(DerivedMaterial(probe.first)) * 8 = probe.length
  /\ probe.fn = "derivedAgain" =>
       /\ probe.second.out.ok
       /\ Len(DerivedMaterial(probe.second)) * 8 = probe.lengthAgain
       /\ /\ MessageOf(probe.saltAgain) = MessageOf(probe.salt)
          /\ probe.iterationsAgain = probe.iterations
          /\ probe.lengthAgain = probe.length
          => DerivedMaterial(probe.second) = DerivedMaterial(probe.first)

(***************************************************************************)
(* Importing Ed25519 containers through the dispatcher: a well-formed SPKI *)
(* or PKCS8 container, or one that is cut short or has one byte changed.   *)
(***************************************************************************)
ContainerFormats == {"spki", "pkcs8"}

\* The container of the k-th key pair.
ValidContainer(format, k) ==
  IF format = "spki" THEN encodeEd25519PublicKeyToSPKI(NaclPublicOf(Seed(k))).bytes
  ELSE encodeEd25519PrivateKeyToPKCS8(Seed(k)).bytes

\* The positions (from 1) of the tags the extractor expects, and of the
\* length byte that declares the size of the key.
TagPositions(format) == IF format = "spki" THEN {1, 3, 10} ELSE {1, 3, 6, 13, 15}

SizePosition(format) == IF format = "spki" THEN 11 ELSE 16

\* The inputs: the container, its proper prefixes (the declared lengths run
\* past the end), one tag replaced by the NULL tag, and the declared key
\* size one less or one more.
ParseInputs(format, k) ==
  LET der == ValidContainer(format, k)
      size == SizePosition(format)
  IN  {[kind |-> "whole", bytes |-> der]}
        \cup {[kind |-> "cut", bytes |-> SubSeq(der, 1, n)] : n \in 0..(Len(der) - 1)}
        \cup {[kind |-> "tag", bytes |-> [der EXCEPT ![j] = 5]] : j \in TagPositions(format)}
        \cup {[kind |-> "size", bytes |-> [der EXCEPT ![size] = der[size] + d]] : d \in {-1, 1}}

ParseImport ==
  /\ probe.fn = "none"
  /\ \E format \in ContainerFormats, k \in 1..MaxKeys :
       \E input \in ParseInputs(format, k) :
         probe' = [fn |-> "parsed", format |-> format, input |-> input,
                   imported |-> importKey(Append(heap, input.bytes), format,
                                          KeyDataBuffer(Len(heap) + 1),
                                          ImportAlg("obj", "Ed25519"), TRUE,
                                          IF format = "spki" THEN {"verify"} ELSE {"sign"}).out]
  /\ UNCHANGED <<keys, heap, writes, call, result>>

\* The imported handle is used: its key is exported in the same format.
ParseExport ==
  /\ probe.fn = "parsed"
  /\ probe.imported.ok
  /\ probe' = [fn |-> "parsedExported", format |-> probe.format, input |-> probe.input,
               imported |-> probe.imported,
               exported |-> exportKey(heap, probe.format, probe.imported.newKeys[1]).out]
  /\ UNCHANGED <<keys, heap, writes, call, result>>

NextParse ==
  \/ ParseImport
  \/ ParseExport

SpecParse == Init /\ [][NextParse]_vars

\* C17: importKey('spki') and importKey('pkcs8') of any byte string either
\* reject or return a handle holding exactly 32 bytes of public key
\* (respectively the 64-byte key expanded from 32 seed bytes); an input
\* with a wrong tag, a declared key size other than 32, or a declared
\* length running past the end of the input is rejected.
C17_StrictParsing ==
  probe.fn \in {"parsed", "parsedExported"} =>
    /\ probe.imported.ok =>
         IF probe.format = "spki"
         THEN Len(probe.imported.newKeys[1].rawPublicKey) = ED25519_PUBLIC_KEY_SIZE
         ELSE Len(probe.imported.newKeys[1].rawPrivateKey) = ED25519_SECRET_KEY_SIZE
    /\ probe.input.kind \in {"cut", "tag", "size"} => ~probe.imported.ok

(***************************************************************************)
(* Errors: a container is imported as an Ed25519 or RSA-OAEP key, and the  *)
(* handle is used with an argument the primitive rejects.  Next to the     *)
(* outcome of the call stands the error raised inside the adapter or by    *)
(* the primitive it calls.                                                 *)
(***************************************************************************)
ContainerNames == {"Ed25519", "RSA-OAEP"}

RsaContainer(format, k) == IF format = "spki" THEN ForgeSpkiDer(k) ELSE ForgePkcs8Der(k)

\* RSA inputs: the container, its proper prefixes, the other container.
RsaInputs(format, k) ==
  LET der == RsaContainer(format, k)
  IN  {[kind |-> "whole", bytes |-> der]}
        \cup {[kind |-> "cut", bytes |-> SubSeq(der, 1, n)] : n \in 0..(Len(der) - 1)}
        \cup {[kind |-> "tag", bytes |-> RsaContainer(x, k)] : x \in ContainerFormats \ {format}}

ImportInputs(name, format, k) ==
  IF name = "Ed25519" THEN ParseInputs(format, k) ELSE RsaInputs(format, k)

NotRaised == [ok |-> TRUE, msg |-> "none"]

Raised(r) == IF r.ok THEN NotRaised ELSE [ok |-> FALSE, msg |-> r.msg]

\* The error the extractor, nacl or forge raises for the bytes of a container.
ImportRaised(name, format, bytes) ==
  IF name = "Ed25519"
  THEN IF format = "spki" THEN Raised(extractEd25519PublicKeyFromSPKI(bytes))
       ELSE LET seed == extractEd25519PrivateKeyFromPKCS8(bytes)
            IN  IF ~seed.ok THEN Raised(seed) ELSE Raised(NaclKeyPairFromSeed(seed.bytes))
  ELSE IF format = "spki"
       THEN Raised(ForgePublicKeyFromPem(arrayBufferToPEM(bytes, "PUBLIC KEY")))
       ELSE Raised(ForgePrivateKeyFromPem(arrayBufferToPEM(bytes, "PRIVATE KEY")))

ErrorImport ==
  /\ probe.fn = "none"
  /\ \E name \in ContainerNames, format \in ContainerFormats, k \in 1..MaxKeys :
       \E input \in ImportInputs(name, format, k) :
         probe' = [fn |-> "imported", name |-> name, op |-> "importKey", input |-> input,
                   raised |-> ImportRaised(name, format, input.bytes),
                   outcome |-> importKey(Append(heap, input.bytes), format,
                                         KeyDataBuffer(Len(heap) + 1), ImportAlg("obj", name),
                                         TRUE, {"verify", "sign", "encrypt", "decrypt"}).out]
  /\ UNCHANGED <<keys, heap, writes, call, result>>

\* What the caller passes to verify or decrypt with the imported handle.
UseArgs == {Buffer(<<1, 2, 3>>), Buffer([i \in 1..ED25519_SIGNATURE_SIZE |-> 0])}

\* The error raised by the adapter, nacl or forge when the handle is used.
UseRaised(key, arg) ==
  IF key.algorithm.name = "Ed25519"
  THEN IF key.rawPublicKey = Undef
       THEN [ok |-> FALSE, msg |-> "Key does not contain public key material"]
       ELSE Raised(NaclVerifyDetached(Msg(1), arg.buffer, key.rawPublicKey))
  ELSE IF key.forgePrivateKey = 0
       THEN [ok |-> FALSE, msg |-> "Key does not contain private key material"]
       ELSE Raised(ForgeRsaDecrypt(key.forgePrivateKey, arg.buffer))

ErrorUse ==
  /\ probe.fn = "imported"
  /\ probe.outcome.ok
  /\ \E arg \in UseArgs :
       LET key == probe.outcome.newKeys[1]
       IN  probe' = [fn |-> "used", name |-> probe.name,
                     op |-> IF probe.name = "Ed25519" THEN "verify" ELSE "decrypt",
                     input |-> probe.input, key |-> key, arg |-> arg,
                     raised |-> UseRaised(key, arg),
                     outcome |-> IF probe.name = "Ed25519"
                                 THEN verify(heap, AlgId("obj", "Ed25519"), key, arg,
                                             Buffer(Msg(1))).out
                                 ELSE decrypt(heap, AlgId("obj", "RSA-OAEP"), key, arg).out]
  /\ UNCHANGED <<keys, heap, writes, call, result>>

NextErrors ==
  \/ ErrorImport
  \/ ErrorUse

SpecErrors == Init /\ [][NextErrors]_vars

\* C19: an error raised inside an adapter function, or by the primitive it
\* calls, reaches the caller of the dispatcher as that same error: the call
\* rejects, and with the message that was raised.
C19_ErrorsUnmodified ==
  probe.fn \in {"imported", "used"} /\ ~probe.raised.ok =>
    /\ ~probe.outcome.ok
    /\ probe.outcome.msg = probe.raised.msg

(***************************************************************************)
(* RSA-OAEP containers through the dispatcher: a key is generated or       *)
(* imported from a container, exported, and the export imported and        *)
(* exported again.                                                         *)
(***************************************************************************)
RsaSources == {"generateKey", "importKey"}

\* The handle of the format (spki: public, pkcs8: private) of the k-th pair.
\* The handle of the format among the two of a generated pair.
PairHandle(made, format) ==
  IF format = "spki" THEN made.out.newKeys[1] ELSE made.out.newKeys[2]

RsaHandle(source, format, k) ==
  IF source = "generateKey"
  THEN PairHandle(generateKey(heap, GenAlg("obj", "RSA-OAEP"), TRUE,
                              {"encrypt", "decrypt"}, Random(k)), format)
  ELSE importKey(Append(heap, RsaContainer(format, k)), format,
                 KeyDataBuffer(Len(heap) + 1), ImportAlg("obj", "RSA-OAEP"),
                 TRUE, {"encrypt", "decrypt"}).out.newKeys[1]

RsaTripMake ==
  /\ probe.fn = "none"
  /\ \E source \in RsaSources, format \in ContainerFormats, k \in 1..MaxRoundTrips :
       probe' = [fn |-> "made", source |-> source, format |-> format, k |-> k,
                 key |-> RsaHandle(source, format, k)]
  /\ UNCHANGED <<keys, heap, writes, call, result>>

RsaTripExport ==
  /\ probe.fn = "made"
  /\ probe' = [fn |-> "exported", source |-> probe.source, format |-> probe.format,
               k |-> probe.k, key |-> probe.key,
               exported |-> exportKey(heap, probe.format, probe.key).out]
  /\ UNCHANGED <<keys, heap, writes, call, result>>

RsaTripAgain ==
  /\ probe.fn = "exported"
  /\ probe.exported.ok
  /\ \E again \in {importKey(Append(heap, probe.exported.bytes), probe.format,
                             KeyDataBuffer(Len(heap) + 1), ImportAlg("obj", "RSA-OAEP"),
                             TRUE, {"encrypt", "decrypt"}).out} :
         probe' = [fn |-> "exportedAgain", source |-> probe.source, format |-> probe.format,
                   k |-> probe.k, key |-> probe.key, exported |-> probe.exported,
                   again |-> again,
                   exportedAgain |-> IF again.ok
                                     THEN exportKey(heap, probe.format, again.newKeys[1]).out
                                     ELSE again]
  /\ UNCHANGED <<keys, heap, writes, call, result>>

NextRsaTrip ==
  \/ RsaTripMake
  \/ RsaTripExport
  \/ RsaTripAgain

SpecRsaTrip == Init /\ [][NextRsaTrip]_vars

\* C20: for an RSA-OAEP key made by generateKey or by importKey,
\* exportKey('spki') of the public key is its SubjectPublicKeyInfo DER and
\* exportKey('pkcs8') of the private key is its PKCS8 PrivateKeyInfo DER;
\* importing a valid container and exporting it again returns the container.
C20_RsaContainers ==
  /\ probe.fn \in {"exported", "exportedAgain"} =>
       /\ probe.exported.ok
       /\ probe.exported.bytes = RsaContainer(probe.format, probe.k)
  /\ probe.fn = "exportedAgain" =>
       /\ probe.exportedAgain.ok
       /\ probe.exportedAgain.bytes = probe.exported.bytes

(***************************************************************************)
(* ReactNativeCryptoAdapter: the module is initialised in an environment,  *)
(* an instance is constructed, and its getSubtle and getRandomValues are   *)
(* called.                                                                 *)
(***************************************************************************)
\* The environment: whether require('react-native-quick-crypto') succeeds,
\* what its subtle is, whether it has getRandomValues, whether
\* require('./expo/crypto') succeeds, and whether a native SubtleCrypto is
\* there for the ExpoGoCryptoAdapter.
Environments ==
  [quickLoads : BOOLEAN, subtle : {"undefined", "noGenerateKey", "ok"},
   random : BOOLEAN, expoLoads : BOOLEAN, nativeSubtle : BOOLEAN]

\* A variant that takes the module as available as soon as it loads.
QuickCryptoLoaded(env) == env.quickLoads

\* subtle && typeof subtle.generateKey === 'function', inside the try.
QuickCryptoAvailable(env) == env.quickLoads /\ env.subtle = "ok"

\* The module-level variables after initialisation.
ModuleVars(env) ==
  [quickCryptoAvailable |-> QuickCryptoAvailable(env),
   subtle |-> IF env.quickLoads THEN env.subtle ELSE "undefined",
   getRandomValues |-> env.quickLoads /\ env.random,
   ExpoGoCryptoAdapter |-> ~QuickCryptoAvailable(env) /\ env.expoLoads]

\* new ReactNativeCryptoAdapter(): the adapter field, or the Error thrown.
Construct(module, env) ==
  IF module.quickCryptoAvailable THEN [ok |-> TRUE, adapter |-> "null", isNative |-> FALSE]
  ELSE IF module.ExpoGoCryptoAdapter
  THEN [ok |-> TRUE, adapter |-> "ExpoGoCryptoAdapter", isNative |-> env.nativeSubtle]
  ELSE [ok |-> FALSE, adapter |-> "none", isNative |-> FALSE]

\* Who serves getSubtle() and getRandomValues(array) of an instance.
getSubtle(module, instance) ==
  IF module.quickCryptoAvailable
  THEN IF module.subtle = "undefined" THEN "threw" ELSE "react-native-quick-crypto"
  ELSE IF instance.adapter = "ExpoGoCryptoAdapter" THEN "ExpoGoCryptoAdapter"
  ELSE "threw"

getRandomValues(module, instance) ==
  IF module.quickCryptoAvailable
  THEN IF ~module.getRandomValues THEN "threw" ELSE "react-native-quick-crypto"
  ELSE IF instance.adapter = "ExpoGoCryptoAdapter" THEN "ExpoGoCryptoAdapter"
  ELSE "threw"

SelectLoad ==
  /\ probe.fn = "none"
  /\ \E env \in Environments :
       probe' = [fn |-> "loaded", env |-> env, module |-> ModuleVars(env)]
  /\ UNCHANGED <<keys, heap, writes, call, result>>

SelectConstruct ==
  /\ probe.fn = "loaded"
  /\ probe' = [fn |-> IF Construct(probe.module, probe.env).ok THEN "constructed" ELSE "threw",
               env |-> probe.env, module |-> probe.module,
               instance |-> Construct(probe.module, probe.env),
               subtleBy |-> "none", randomBy |-> "none"]
  /\ UNCHANGED <<keys, heap, writes, call, result>>

SelectGetSubtle ==
  /\ probe.fn = "constructed"
  /\ probe' = [probe EXCEPT !.subtleBy = getSubtle(probe.module, probe.instance)]
  /\ UNCHANGED <<keys, heap, writes, call, result>>

SelectGetRandomValues ==
  /\ probe.fn = "constructed"
  /\ probe' = [probe EXCEPT !.randomBy = getRandomValues(probe.module, probe.instance)]
  /\ UNCHANGED <<keys, heap, writes, call, result>>

NextSelect ==
  \/ SelectLoad
  \/ SelectConstruct
  \/ SelectGetSubtle
  \/ SelectGetRandomValues

SpecSelect == Init /\ [][NextSelect]_vars

\* The implementation the environment calls for.
Selected(env) ==
  IF env.quickLoads /\ env.subtle = "ok" THEN "react-native-quick-crypto"
  ELSE IF env.expoLoads THEN "ExpoGoCryptoAdapter"
  ELSE "none"

\* C21: react-native-quick-crypto is used exactly when it loads and its
\* subtle has generateKey, otherwise the ExpoGoCryptoAdapter; the
\* constructor throws when neither is there; and getSubtle and
\* getRandomValues of an instance are never served by another
\* implementation than the selected one.
C21_OneImplementation ==
  /\ probe.fn \in {"loaded", "constructed", "threw"} =>
       probe.module.quickCryptoAvailable = (Selected(probe.env) = "react-native-quick-crypto")
  /\ probe.fn = "threw" => Selected(probe.env) = "none"
  /\ probe.fn = "constructed" =>
       /\ Selected(probe.env) # "none"
       /\ (probe.instance.adapter = "ExpoGoCryptoAdapter")
            = (Selected(probe.env) = "ExpoGoCryptoAdapter")
       /\ probe.subtleBy \in {"none", "threw", Selected(probe.env)}
       /\ probe.randomBy \in {"none", "threw", Selected(probe.env)}
       /\ Selected(probe.env) = "ExpoGoCryptoAdapter" =>
            probe.subtleBy # "threw" /\ probe.randomBy # "threw"

C21_Witness ==
  /\ probe.fn = "constructed"
  /\ probe.env.quickLoads
  /\ probe.env.subtle = "noGenerateKey"
  /\ probe.subtleBy = "ExpoGoCryptoAdapter"
  /\ probe.randomBy = "ExpoGoCryptoAdapter"

(***************************************************************************)
(* Length fields: readASN1Length applied to byte strings at a position,    *)
(* and the parsers' step over the field and its declared content.          *)
(***************************************************************************)
MaxTail == 4

LengthFirstBytes == {0, 5, 127, 128, 129, 130, 131, 132, 133, 255}

LengthTailBytes == {0, 1, 128, 255}

LengthTails == UNION {[1..n -> LengthTailBytes] : n \in 0..MaxTail}

LengthData ==
  UNION {{<<first>> \o tail, <<48, first>> \o tail} :
           first \in LengthFirstBytes, tail \in LengthTails}

LengthRead ==
  /\ probe.fn = "none"
  /\ \E data \in LengthData : \E pos \in {0, 1, Len(data)} :
       probe' = [fn |-> "readASN1Length", data |-> data, pos |-> pos,
                 length |-> readASN1Length(data, pos)]
  /\ UNCHANGED <<keys, heap, writes, call, result>>

\* pos += length.bytesRead + length.value
LengthSkip ==
  /\ probe.fn = "readASN1Length"
  /\ probe.length.ok
  /\ probe' = [fn |-> "skipped", data |-> probe.data, pos |-> probe.pos,
               length |-> probe.length,
               next |-> probe.pos + probe.length.bytesRead + probe.length.value]
  /\ UNCHANGED <<keys, heap, writes, call, result>>

NextLength ==
  \/ LengthRead
  \/ LengthSkip

SpecLength == Init /\ [][NextLength]_vars

RECURSIVE IsBigEndian(_, _, _, _)
\* value is the unsigned big-endian number in the n bytes of data after
\* index from.
IsBigEndian(value, data, from, n) ==
  IF n = 0 THEN value = 0
  ELSE /\ value >= 0
       /\ value % 256 = data[from + n]
       /\ IsBigEndian(value \div 256, data, from, n - 1)

\* Whether the length field of data at pos is to be rejected.
LengthRejected(data, pos) ==
  \/ pos >= Len(data)
  \/ /\ data[pos + 1] >= 128
     /\ \/ (data[pos + 1] % 128) \notin 1..4
        \/ pos + 1 + (data[pos + 1] % 128) > Len(data)

\* What a reading of the length field of data at pos has to be.
LengthAsSpecified(length, data, pos) ==
  IF LengthRejected(data, pos) THEN ~length.ok
  ELSE IF data[pos + 1] < 128
  THEN length.ok /\ length.value = data[pos + 1] /\ length.bytesRead = 1
  ELSE /\ length.ok
       /\ length.bytesRead = 1 + (data[pos + 1] % 128)
       /\ IsBigEndian(length.value, data, pos + 1, data[pos + 1] % 128)

\* C22: readASN1Length gives the byte itself and bytesRead 1 in the short
\* form, the unsigned big-endian value of the next n bytes and bytesRead
\* 1 + n in the long form with n in 1..4, and rejects n = 0, n > 4, a
\* position at or past the end and fewer than n following bytes.
C22_LengthDecoding ==
  probe.fn = "readASN1Length" =>
    LengthAsSpecified(probe.length, probe.data, probe.pos)

\* The same holds of every field but the four-byte ones whose first
\* following byte is 0x80 or more.
LengthsBelow31Bits ==
  (/\ probe.fn = "readASN1Length"
   /\ ~(/\ probe.pos + 2 <= Len(probe.data)
        /\ probe.data[probe.pos + 1] = 132
        /\ probe.data[probe.pos + 2] >= 128)) =>
    LengthAsSpecified(probe.length, probe.data, probe.pos)

\* C29: readASN1Length never returns a negative value, and a parser's
\* position after the field and its content is never before the field.
C29_NeverNegative ==
  /\ probe.fn = "readASN1Length" => probe.length.value >= 0
  /\ probe.fn = "skipped" => probe.next > probe.pos

(***************************************************************************)
(* The Ed25519 containers, byte by byte.                                   *)
(***************************************************************************)
\* 30 2A 30 05 06 03 2B 65 70 03 21 00
SpkiPrefix == <<48, 42, 48, 5, 6, 3, 43, 101, 112, 3, 33, 0>>

\* 30 2E 02 01 00 30 05 06 03 2B 65 70 04 22 04 20
Pkcs8Prefix == <<48, 46, 2, 1, 0, 48, 5, 6, 3, 43, 101, 112, 4, 34, 4, 32>>

\* The length fields of the containers: position and value written.
SpkiLengths == {<<1, 42>>, <<3, 5>>, <<5, 3>>, <<10, 33>>}

Pkcs8Lengths == {<<1, 46>>, <<3, 1>>, <<6, 5>>, <<8, 3>>, <<13, 34>>, <<15, 32>>}

\* Lengths an encoder call may be given, in the short and the long form.
EncodedLengths == {0, 1, 32, 33, 34, 42, 46, 127, 128, 255, 256, 65535, 65536, 16777216}

ReadBack(bytes, lengths) ==
  \A field \in lengths :
    readASN1Length(bytes, field[1]) =
      [ok |-> TRUE, msg |-> "none", value |-> field[2], bytesRead |-> 1]

\* C23: exportKey('spki') is the 44 bytes 30 2A 30 05 06 03 2B 65 70 03 21
\* 00 followed by the public key; exportKey('pkcs8') is the 48 bytes 30 2E
\* 02 01 00 30 05 06 03 2B 65 70 04 22 04 20 followed by the first 32 bytes
\* of the stored 64-byte secret key; and every length field the encoder
\* writes is read back by readASN1Length as the same value.
C23_ExactContainers ==
  /\ (probe.fn = "export" /\ probe.format = "spki") =>
       /\ probe.exported.ok
       /\ Len(probe.exported.bytes) = 44
       /\ probe.exported.bytes = SpkiPrefix \o probe.pair[1].rawPublicKey
       /\ ReadBack(probe.exported.bytes, SpkiLengths)
  /\ (probe.fn = "export" /\ probe.format = "pkcs8") =>
       /\ probe.exported.ok
       /\ Len(probe.exported.bytes) = 48
       /\ Len(probe.pair[2].rawPrivateKey) = ED25519_SECRET_KEY_SIZE
       /\ probe.exported.bytes
            = Pkcs8Prefix \o SubSeq(probe.pair[2].rawPrivateKey, 1, 32)
       /\ ReadBack(probe.exported.bytes, Pkcs8Lengths)
  /\ probe.fn = "export" =>
       \A n \in EncodedLengths :
         /\ readASN1Length(encodeASN1Length(n), 0).ok
         /\ readASN1Length(encodeASN1Length(n), 0).value = n
         /\ readASN1Length(encodeASN1Length(n), 0).bytesRead = Len(encodeASN1Length(n))

C23_Witness ==
  /\ probe.fn = "export"
  /\ probe.format = "pkcs8"
  /\ probe.exported.ok
  /\ SubSeq(probe.exported.bytes, 1, 16) = Pkcs8Prefix
  /\ SubSeq(probe.exported.bytes, 17, 48) = Seed(probe.seed)

(***************************************************************************)
(* PEM: a buffer is written as PEM and the PEM is read back.               *)
(***************************************************************************)
MaxPemLen == 100

MaxPemFill == 3

PemTypes == {"PUBLIC KEY", "PRIVATE KEY"}

\* A buffer of len bytes, the k-th of its length.
PemBuffer(len, k) == [i \in 1..len |-> (37 * k * i + 85 * k) % 256]

PemEncode ==
  /\ probe.fn = "none"
  /\ \E len \in 0..MaxPemLen : \E k \in 1..MaxPemFill : \E type \in PemTypes :
       probe' = [fn |-> "arrayBufferToPEM", buffer |-> PemBuffer(len, k),
                 type |-> type, pem |-> arrayBufferToPEM(PemBuffer(len, k), type)]
  /\ UNCHANGED <<keys, heap, writes, call, result>>

PemDecode ==
  /\ probe.fn = "arrayBufferToPEM"
  /\ probe' = [fn |-> "pemToArrayBuffer", buffer |-> probe.buffer,
               type |-> probe.type, pem |-> probe.pem,
               decoded |-> pemToArrayBuffer(probe.pem)]
  /\ UNCHANGED <<keys, heap, writes, call, result>>

NextPem ==
  \/ PemEncode
  \/ PemDecode

SpecPem == Init /\ [][NextPem]_vars

\* C24: arrayBufferToPEM(b, type) is the BEGIN line of the type, the base64
\* text of b (four characters for every three bytes begun) in lines of
\* exactly 64 characters except a shorter last line, and the END line; and
\* pemToArrayBuffer gives b back from it.
C24_PemRoundTrip ==
  /\ probe.fn = "arrayBufferToPEM" =>
       /\ probe.pem.label = probe.type
       /\ Concat(probe.pem.lines) = btoa(probe.buffer)
       /\ Len(Concat(probe.pem.lines)) = 4 * ((Len(probe.buffer) + 2) \div 3)
       /\ \A i \in 1..Len(probe.pem.lines) :
            IF i < Len(probe.pem.lines) THEN Len(probe.pem.lines[i]) = 64
            ELSE Len(probe.pem.lines[i]) \in 1..64
  /\ probe.fn = "pemToArrayBuffer" =>
       /\ probe.decoded.ok
       /\ probe.decoded.bytes = probe.buffer

C24_Witness ==
  /\ probe.fn = "pemToArrayBuffer"
  /\ Len(probe.buffer) = 100
  /\ Len(probe.pem.lines) = 3
  /\ Len(probe.pem.lines[3]) = 8
  /\ probe.decoded.bytes = probe.buffer

(***************************************************************************)
(* AES-GCM keys by each way of making one: generateKey, importKey of raw   *)
(* material, and deriveKey from a PBKDF2 base key.                         *)
(***************************************************************************)
\* Key lengths in bits; 0 stands for an algorithm without a length member.
AesLengths == {128, 256}

KeyUsagesArgs == {{"encrypt", "decrypt"}, {"encrypt"}, {"decrypt"}, {"sign", "verify"}}

AesKeyParams(length) == [AlgId("obj", "AES-GCM") EXCEPT !.length = length]

\* The handle importKey('raw') returned for the caller's k-th buffer under
\* a name, and the heap.
HeldSecret(name, k) ==
  SecretKey(heap, KeyDataBuffer(k),
            [NoAlg EXCEPT !.name = name,
               !.hash = IF name = "HMAC" THEN "SHA-256" ELSE "none",
               !.length = IF name = "PBKDF2" THEN 0 ELSE Len(heap[k]) * 8],
            TRUE, {"sign", "verify", "encrypt", "decrypt", "deriveKey"})

\* What is kept of a call that made a key: the arguments and the handle
\* with its material, or the failure.
MadeKey(way, extractable, usages, length, made) ==
  [fn |-> way, extractable |-> extractable, usages |-> usages, length |-> length,
   ok |-> made.out.ok,
   handles |-> made.out.newKeys,
   key |-> IF made.out.ok THEN made.out.newKeys[1] ELSE BlankKey,
   material |-> IF made.out.ok /\ made.out.newKeys[1].rawKey # 0
                THEN made.heap[made.out.newKeys[1].rawKey] ELSE Undef]

AesGenerate ==
  /\ probe.fn = "none"
  /\ \E extractable \in BOOLEAN, usages \in KeyUsagesArgs, length \in AesLengths, k \in 1..MaxKeys :
       \E made \in {generateKey(heap, AesKeyParams(length), extractable, usages, Random(k))} :
         probe' = MadeKey("generateKey", extractable, usages, length, made)
  /\ UNCHANGED <<keys, heap, writes, call, result>>

AesImport ==
  /\ probe.fn = "none"
  /\ \E extractable \in BOOLEAN, usages \in KeyUsagesArgs, length \in AesLengths \cup {0}, keyData \in RawKeyData :
       \E made \in {importKey(heap, "raw", keyData, AesKeyParams(length), extractable, usages)} :
         probe' = MadeKey("importKey", extractable, usages, length, made)
  /\ UNCHANGED <<keys, heap, writes, call, result>>

AesDerive ==
  /\ probe.fn = "none"
  /\ \E extractable \in BOOLEAN, usages \in KeyUsagesArgs, length \in AesLengths, salt \in SaltArgs :
       \E base \in {HeldSecret("PBKDF2", 1)} :
         \E made \in {deriveKey(base.heap, Pbkdf2Params(salt, 1000), base.out.newKeys[1],
                                AesKeyParams(length), extractable, usages)} :
           probe' = MadeKey("deriveKey", extractable, usages, length, made)
  /\ UNCHANGED <<keys, heap, writes, call, result>>

NextAesKey ==
  \/ AesGenerate
  \/ AesImport
  \/ AesDerive

SpecAesKey == Init /\ [][NextAesKey]_vars

\* C25: every AES-GCM key handle made by generateKey, importKey or
\* deriveKey holds exactly algorithm.length / 8 bytes: the bit length of
\* its descriptor is eight times the number of bytes of its material.
C25_LengthMatchesMaterial ==
  (probe.fn \in {"generateKey", "importKey", "deriveKey"} /\ probe.ok) =>
    /\ probe.key.algorithm.name = "AES-GCM"
    /\ probe.material # Undef
    /\ probe.key.algorithm.length = 8 * Len(probe.material)

(***************************************************************************)
(* Handles of every kind, with the extractable and usages passed.          *)
(***************************************************************************)
PairNames == {"Ed25519", "RSA-OAEP"}

PairGenerate ==
  /\ probe.fn = "none"
  /\ \E extractable \in BOOLEAN, usages \in KeyUsagesArgs, name \in PairNames, k \in 1..MaxKeys :
       \E made \in {generateKey(heap, GenAlg("obj", name), extractable, usages, Random(k))} :
         probe' = MadeKey("generateKeyPair", extractable, usages, 0, made)
  /\ UNCHANGED <<keys, heap, writes, call, result>>

HandleImport ==
  /\ probe.fn = "none"
  /\ \E extractable \in BOOLEAN, usages \in KeyUsagesArgs, name \in PairNames \cup {"HMAC"}, format \in {"raw", "spki", "pkcs8"} :
       \E keyData \in KeyDataArgs(format, name) :
         \E made \in {importKey(heap, format, keyData, ImportAlg("obj", name),
                                extractable, usages)} :
           probe' = MadeKey("importHandle", extractable, usages, 0, made)
  /\ UNCHANGED <<keys, heap, writes, call, result>>

NextHandles ==
  \/ AesGenerate
  \/ AesImport
  \/ AesDerive
  \/ PairGenerate
  \/ HandleImport

SpecHandles == Init /\ [][NextHandles]_vars

\* The handles of a call carry the arguments of the call.
CarriesArguments(p) ==
  p.ok => \A i \in 1..Len(p.handles) :
            /\ p.handles[i].extractable = p.extractable
            /\ p.handles[i].usages \subseteq p.usages

\* C27: the handle returned by generateKey, importKey and deriveKey carries
\* the caller's arguments: its extractable is the extractable argument and
\* its usages are among the usages argument, for each half of a key pair.
C27_HandleCarriesArguments ==
  probe.fn # "none" => CarriesArguments(probe)

(***************************************************************************)
(* PKCS#8 in both layouts: a seed is wrapped, decoded, and imported.       *)
(***************************************************************************)
Pkcs8Layouts == {"double", "single"}

\* First and second bytes a seed may start with, besides its own.
SeedFirstBytes == {0, 4, 5, 48, 128, 255}

SeedSecondBytes == {0, 32, 129}

\* The seeds: the k-th seed, also with its first two bytes replaced.
Pkcs8Seeds(k) ==
  {Seed(k)}
    \cup {[Seed(k) EXCEPT ![1] = a] : a \in SeedFirstBytes}
    \cup {[Seed(k) EXCEPT ![1] = a, ![2] = b] : a \in SeedFirstBytes, b \in SeedSecondBytes}

\* RFC 8410: OCTET STRING { OCTET STRING { seed } }; older: OCTET STRING { seed }.
Pkcs8Container(layout, seed) ==
  IF layout = "double" THEN encodeEd25519PrivateKeyToPKCS8(seed).bytes
  ELSE encodeASN1Sequence(<<encodeASN1Integer(<<0>>),
                            encodeASN1Sequence(<<Ed25519Oid>>),
                            encodeASN1OctetString(seed)>>)

Pkcs8Decode ==
  /\ probe.fn = "none"
  /\ \E layout \in Pkcs8Layouts, k \in 1..MaxKeys :
       \E seed \in Pkcs8Seeds(k) :
         probe' = [fn |-> "decoded", layout |-> layout, seed |-> seed,
                   container |-> Pkcs8Container(layout, seed),
                   decoded |-> extractEd25519PrivateKeyFromPKCS8(Pkcs8Container(layout, seed))]
  /\ UNCHANGED <<keys, heap, writes, call, result>>

Pkcs8Import ==
  /\ probe.fn = "decoded"
  /\ probe' = [fn |-> "decodedImport", layout |-> probe.layout, seed |-> probe.seed,
               container |-> probe.container, decoded |-> probe.decoded,
               imported |-> importKey(Append(heap, probe.container), "pkcs8",
                                      KeyDataBuffer(Len(heap) + 1),
                                      ImportAlg("obj", "Ed25519"), TRUE, {"sign"}).out]
  /\ UNCHANGED <<keys, heap, writes, call, result>>

NextPkcs8 ==
  \/ Pkcs8Decode
  \/ Pkcs8Import

SpecPkcs8 == Init /\ [][NextPkcs8]_vars

\* C26: the PKCS8 decoder recovers the seed from both layouts: for every
\* 32-byte seed, whatever its first bytes are, decoding the double-wrapped
\* container and decoding the single-wrapped container each return the
\* seed, and importKey('pkcs8') holds the key pair of that seed.
C26_BothLayouts ==
  /\ probe.fn \in {"decoded", "decodedImport"} =>
       /\ probe.decoded.ok
       /\ probe.decoded.bytes = probe.seed
  /\ probe.fn = "decodedImport" =>
       /\ probe.imported.ok
       /\ probe.imported.newKeys[1].rawPrivateKey = NaclKeyPairFromSeed(probe.seed).secretKey

\* The same for the double-wrapped layout and for seeds not starting 0x04.
DecodesUnlessSeedStarts04 ==
  (probe.fn \in {"decoded", "decodedImport"}
     /\ (probe.layout = "double" \/ probe.seed[1] # 4)) =>
    /\ probe.decoded.ok
    /\ probe.decoded.bytes = probe.seed

(***************************************************************************)
(* Views: each operation is called with a typed-array view of a buffer and *)
(* with a standalone copy of the bytes the view covers.                    *)
(***************************************************************************)
\* What lies in the buffer before and after the window of a view.
ViewPads == {<<>>, <<0>>, <<9, 9>>}

\* The views of bytes: Uint8Arrays (u8) and other views, over buffers that
\* hold more than the window (partial) or just the window.
ViewsOf(bytes) ==
  {[Uint8View(pre \o bytes \o post, Len(pre), Len(bytes)) EXCEPT !.u8 = u8] :
     pre \in ViewPads, post \in ViewPads, u8 \in BOOLEAN}

IsPartial(view) == Len(view.buffer) # view.byteLength

Iv12 == [i \in 1..12 |-> 200 + i]

Salt16 == [i \in 1..16 |-> 66]

\* The signer and verifier held: the k-th Ed25519 pair or HMAC secret.
HeldKeys(name, k) ==
  IF name = "Ed25519"
  THEN [signer |-> ed25519GenerateKey(Seed(k)).newKeys[2],
        verifier |-> ed25519GenerateKey(Seed(k)).newKeys[1], heap |-> heap]
  ELSE SecretKeys(HeldSecret("HMAC", k))

\* The message, the signature, the IV or the salt of a call: the view, or
\* the standalone copy of the bytes.
ArgKinds == {"view", "copy"}

ArgOf(kind, view, bytes) == IF kind = "view" THEN view ELSE Buffer(bytes)

\* What is kept of the two calls of an operation, rs their results.
Compared(op, which, view, bytes, name, made, rs) ==
  [fn |-> op, which |-> which, view |-> view, bytes |-> bytes, name |-> name,
   made |-> made, viewed |-> rs["view"], copied |-> rs["copy"]]

ViewSign ==
  /\ probe.fn = "none"
  /\ \E name \in SignNames, k \in 1..MaxKeys, m \in 1..MaxMsgIx :
       \E view \in ViewsOf(Msg(m)), made \in {HeldKeys(name, k)} :
         \E rs \in {[kind \in ArgKinds |->
                       sign(made.heap, AlgId("obj", name), made.signer,
                            ArgOf(kind, view, Msg(m))).out]} :
           probe' = Compared("sign", "data", view, Msg(m), name, made, rs)
  /\ UNCHANGED <<keys, heap, writes, call, result>>

\* verify of the signature sign returned for the copy, the message or the
\* signature being passed as a view and as a copy.
ViewVerify ==
  /\ probe.fn = "sign"
  /\ probe.copied.ok
  /\ \E which \in {"data", "signature"}, pre \in ViewPads, post \in ViewPads :
       \E bytes \in {IF which = "data" THEN probe.bytes ELSE probe.copied.bytes} :
         \E view \in {Uint8View(pre \o bytes \o post, Len(pre), Len(bytes))} :
           \E rs \in {[kind \in ArgKinds |->
                         verify(probe.made.heap, AlgId("obj", probe.name),
                                probe.made.verifier,
                                IF which = "signature" THEN ArgOf(kind, view, bytes)
                                ELSE Buffer(probe.copied.bytes),
                                IF which = "data" THEN ArgOf(kind, view, bytes)
                                ELSE Buffer(probe.bytes)).out]} :
             probe' = Compared("verify", which, view, bytes, probe.name, probe.made, rs)
  /\ UNCHANGED <<keys, heap, writes, call, result>>

ViewEncrypt ==
  /\ probe.fn = "none"
  /\ \E m \in 1..MaxMsgIx, which \in {"data", "iv"} :
       \E made \in {HeldSecret("AES-GCM", 1)} :
         \E bytes \in {IF which = "data" THEN Msg(m) ELSE Iv12} :
           \E view \in ViewsOf(bytes) :
             \E rs \in {[kind \in ArgKinds |->
                           encrypt(made.heap,
                                   AesParams(IF which = "iv" THEN ArgOf(kind, view, bytes)
                                             ELSE Buffer(Iv12), 128),
                                   made.out.newKeys[1],
                                   IF which = "data" THEN ArgOf(kind, view, bytes)
                                   ELSE Buffer(Msg(m)), 0).out]} :
               probe' = Compared("encrypt", which, view, bytes, "AES-GCM", made, rs)
  /\ UNCHANGED <<keys, heap, writes, call, result>>

\* decrypt of what encrypt returned for the copies, the ciphertext or the
\* IV being passed as a view and as a copy.
ViewDecrypt ==
  /\ probe.fn = "encrypt"
  /\ probe.copied.ok
  /\ \E which \in {"data", "iv"}, pre \in ViewPads, post \in ViewPads, u8 \in BOOLEAN :
       \E bytes \in {IF which = "data" THEN probe.copied.bytes ELSE Iv12} :
         \E view \in {[Uint8View(pre \o bytes \o post, Len(pre), Len(bytes)) EXCEPT !.u8 = u8]} :
           \E rs \in {[kind \in ArgKinds |->
                         decrypt(probe.made.heap,
                                 AesParams(IF which = "iv" THEN ArgOf(kind, view, bytes)
                                           ELSE Buffer(Iv12), 128),
                                 probe.made.out.newKeys[1],
                                 IF which = "data" THEN ArgOf(kind, view, bytes)
                                 ELSE Buffer(probe.copied.bytes)).out]} :
             probe' = Compared("decrypt", which, view, bytes, "AES-GCM", probe.made, rs)
  /\ UNCHANGED <<keys, heap, writes, call, result>>

ViewDigest ==
  /\ probe.fn = "none"
  /\ \E m \in 1..MaxMsgIx, form \in Forms :
       \E view \in ViewsOf(Msg(m)) :
         \E rs \in {[kind \in ArgKinds |->
                       digest(heap, AlgId(form, "SHA-256"), ArgOf(kind, view, Msg(m))).out]} :
           probe' = Compared("digest", "data", view, Msg(m), form, 0, rs)
  /\ UNCHANGED <<keys, heap, writes, call, result>>

\* The results kept are the materials of the derived keys.
ViewDerive ==
  /\ probe.fn = "none"
  /\ \E length \in DeriveLengths, view \in ViewsOf(Salt16) :
       \E base \in {HeldSecret("PBKDF2", 1)} :
         \E rs \in {[kind \in ArgKinds |->
                       DerivedMaterial(
                         deriveKey(base.heap, Pbkdf2Params(ArgOf(kind, view, Salt16), 1000),
                                   base.out.newKeys[1], AesDerivedKeyParams(length),
                                   TRUE, {"encrypt", "decrypt"}))]} :
           probe' = Compared("deriveKey", "salt", view, Salt16, "PBKDF2", length, rs)
  /\ UNCHANGED <<keys, heap, writes, call, result>>

NextViews ==
  \/ ViewSign
  \/ ViewVerify
  \/ ViewEncrypt
  \/ ViewDecrypt
  \/ ViewDigest
  \/ ViewDerive

SpecViews == Init /\ [][NextViews]_vars

\* C28: when the data, signature, IV or salt of sign, verify, encrypt,
\* decrypt, digest or deriveKey is a partial typed-array view, the
\* operation processes exactly the bytes of the view: its result is the
\* result for a standalone copy of those bytes.
C28_ViewBytesOnly ==
  (probe.fn # "none" /\ IsPartial(probe.view)) => probe.viewed = probe.copied

\* Views that cover their whole buffer are processed as the copy; so are
\* partial views that are not Uint8Arrays as the IV of encrypt and as the
\* salt of deriveKey.
WholeViewsAgree ==
  (/\ probe.fn # "none"
   /\ \/ ~IsPartial(probe.view)
      \/ ~probe.view.u8 /\ probe.which = "iv" /\ probe.fn = "encrypt"
      \/ ~probe.view.u8 /\ probe.which = "salt") =>
    probe.viewed = probe.copied

(***************************************************************************)
(* The test-harness screen (App): MindooDB is loaded after the mount, the  *)
(* load state reaches the component on a timer tick, and the Run button    *)
(* starts runTest, which goes through its stages, each awaiting a promise. *)
(***************************************************************************)
\* The imports runTest validates.
ImportNames ==
  {"BaseMindooTenantFactory", "InMemoryContentAddressedStoreFactory", "KeyBag",
   "QuickCryptoAdapter", "ReactNativeCryptoAdapter"}

\* The stages of the try block, each ending in an await or a constructor.
Stages ==
  <<"storeFactory", "cryptoAdapter", "factory", "createUserId", "keys",
    "tenant", "documents", "iterate", "verify">>

\* loadMindooDB: require('mindoodb') throws, or the exports that are there
\* are assigned.  The component's state still holds the values of its
\* first render.
AppMount ==
  /\ probe.fn = "none"
  /\ \E loads \in BOOLEAN, imports \in SUBSET ImportNames :
       /\ ~loads => imports = {}
       /\ probe' = [fn |-> "app", mindoodbLoaded |-> loads, mindoodbLoadError |-> ~loads,
                    imports |-> imports,
                    mindoodbLoadState |-> [loaded |-> FALSE, error |-> FALSE],
                    isRunning |-> FALSE, testStatus |-> "idle", pc |-> "idle", stage |-> 0]
  /\ UNCHANGED <<keys, heap, writes, call, result>>

\* The interval callback: setMindoodbLoadState({loaded, error}).
LoadStateTick ==
  /\ probe.fn = "app"
  /\ probe.mindoodbLoadState = [loaded |-> FALSE, error |-> FALSE]
  /\ probe' = [probe EXCEPT !.mindoodbLoadState =
                 [loaded |-> probe.mindoodbLoaded, error |-> probe.mindoodbLoadError]]
  /\ UNCHANGED <<keys, heap, writes, call, result>>

\* The checks between the three setters and the try block: none throws.
ImportsValidated(p) ==
  /\ p.mindoodbLoadState.loaded
  /\ "BaseMindooTenantFactory" \in p.imports
  /\ "InMemoryContentAddressedStoreFactory" \in p.imports
  /\ "KeyBag" \in p.imports
  /\ "QuickCryptoAdapter" \in p.imports
  /\ "ReactNativeCryptoAdapter" \in p.imports

\* The Run button is rendered unless the load error screen is, and is
\* disabled while isRunning.  runTest sets isRunning and testStatus, then
\* validates the imports: a throw there rejects the promise of runTest
\* before the try block is entered.
RunTest ==
  /\ probe.fn = "app"
  /\ ~probe.isRunning
  /\ probe.pc \in {"idle", "ended"}
  /\ ~(~probe.mindoodbLoadState.loaded /\ probe.mindoodbLoadState.error)
  /\ probe' = [probe EXCEPT !.isRunning = TRUE, !.testStatus = "running",
                 !.pc = IF ImportsValidated(probe) THEN "try" ELSE "rejected",
                 !.stage = IF ImportsValidated(probe) THEN 1 ELSE 0]
  /\ UNCHANGED <<keys, heap, writes, call, result>>

\* A stage of the try block completes.
StageDone ==
  /\ probe.fn = "app"
  /\ probe.pc = "try"
  /\ probe.stage < Len(Stages)
  /\ probe' = [probe EXCEPT !.stage = probe.stage + 1]
  /\ UNCHANGED <<keys, heap, writes, call, result>>

\* A stage throws or its promise rejects: catch sets testStatus to 'error'
\* and finally sets isRunning to false.
StageThrows ==
  /\ probe.fn = "app"
  /\ probe.pc = "try"
  /\ probe' = [probe EXCEPT !.testStatus = "error", !.isRunning = FALSE,
                 !.pc = "ended", !.stage = 0]
  /\ UNCHANGED <<keys, heap, writes, call, result>>

\* The last stage: the verdict on the documents, then finally.
Verdict ==
  /\ probe.fn = "app"
  /\ probe.pc = "try"
  /\ probe.stage = Len(Stages)
  /\ \E passed \in BOOLEAN :
       probe' = [probe EXCEPT !.testStatus = IF passed THEN "success" ELSE "error",
                   !.isRunning = FALSE, !.pc = "ended", !.stage = 0]
  /\ UNCHANGED <<keys, heap, writes, call, result>>

\* The continuation of runTest after a promise it awaits has settled.
Continue ==
  \/ StageDone
  \/ StageThrows
  \/ Verdict

NextApp ==
  \/ AppMount
  \/ LoadStateTick
  \/ RunTest
  \/ StageDone
  \/ StageThrows
  \/ Verdict

SpecApp == Init /\ [][NextApp]_vars

\* Every promise runTest awaits settles and the event loop then runs the
\* continuation; the timer tick is delivered.
SpecAppFair == SpecApp /\ WF_vars(Continue) /\ WF_vars(LoadStateTick)

\* C30: every run started by runTest eventually ends with isRunning false
\* and testStatus no longer 'running', whatever happens, also when the
\* MindooDB modules are not loaded or an import is undefined.
C30_RunEnds ==
  (probe.fn = "app" /\ probe.isRunning)
    ~> (probe.fn = "app" /\ ~probe.isRunning /\ probe.testStatus # "running")

\* A run that has entered the try block ends.
RunInTryEnds ==
  (probe.fn = "app" /\ probe.pc = "try")
    ~> (probe.fn = "app" /\ ~probe.isRunning /\ probe.testStatus \in {"success", "error"})

\* A run whose validation threw stays running for ever.
RejectedStaysRunning ==
  [][(probe.fn = "app" /\ probe.pc = "rejected") =>
       (probe'.pc = "rejected" /\ probe'.isRunning /\ probe'.testStatus = "running")]_vars
====
